---- MODULE Spec2Model ----
(***************************************************************************)
(* Model of the Git output parsers of packages/git/src/node/dugite-git.ts: *)
(* GitBlameParser (parse, parseEntries, pumpEntry, createFileBlame), the   *)
(* commitBodyReader of DugiteGit.blame, NameStatusParser.parse and         *)
(* DugiteGit.mapFileChange.                                                *)
(*                                                                         *)
(* A JavaScript string is a sequence of one-character strings.  An         *)
(* optional value (a field that may be `undefined`) is a sequence of       *)
(* length 0 or 1.  A JavaScript number is a record [nan, n]: parseInt      *)
(* yields NaN on text without leading digits and NaN is absorbing.         *)
(***************************************************************************)
EXTENDS Integers, Sequences, FiniteSets, TLC

----------------------------------------------------------------------------
(* Bounds of the model. *)

\* Largest number of hunks in a generated blame stream.
MaxHunks == 3

\* Largest number of hunks in a blame stream that is cut at every position.
MaxCutHunks == 2

\* Largest number of records in a generated name-status listing.
MaxRecords == 3

\* Largest number of working-directory changes mapped by one status call.
MaxChanges == 2

----------------------------------------------------------------------------
(* JavaScript values. *)

Undefined == <<>>

Some(v) == <<v>>

NaN == [nan |-> TRUE, n |-> 0]

Num(i) == [nan |-> FALSE, n |-> i]

\* a - b on JavaScript numbers
NumMinus(a, b) == IF a.nan \/ b.nan THEN NaN ELSE Num(a.n - b.n)

\* a * b on JavaScript numbers
NumTimes(a, b) == IF a.nan \/ b.nan THEN NaN ELSE Num(a.n * b.n)

\* a + b on JavaScript numbers
NumPlus(a, b) == IF a.nan \/ b.nan THEN NaN ELSE Num(a.n + b.n)

----------------------------------------------------------------------------
(* JavaScript string primitives. *)

Digits == {"0", "1", "2", "3", "4", "5", "6", "7", "8", "9"}

DigitVal(c) ==
  CASE c = "0" -> 0 [] c = "1" -> 1 [] c = "2" -> 2 [] c = "3" -> 3
    [] c = "4" -> 4 [] c = "5" -> 5 [] c = "6" -> 6 [] c = "7" -> 7
    [] c = "8" -> 8 [] c = "9" -> 9

\* the characters String.prototype.trim and parseInt treat as white space
WhiteSpace == {" ", "\n", "\t", "\r"}

\* String.prototype.indexOf(ch, from) for a one-character needle, 0-based;
\* -1 when absent
IndexOf(s, ch, from) ==
  LET hits == {i \in (from + 1)..Len(s) : s[i] = ch}
  IN  IF hits = {} THEN -1
      ELSE (CHOOSE i \in hits : \A j \in hits : i <= j) - 1

\* String.prototype.lastIndexOf(ch), 0-based; -1 when absent
LastIndexOf(s, ch) ==
  LET hits == {i \in 1..Len(s) : s[i] = ch}
  IN  IF hits = {} THEN -1
      ELSE (CHOOSE i \in hits : \A j \in hits : i >= j) - 1

\* String.prototype.substring(start, end), 0-based, end exclusive
Substring(s, start, end) == SubSeq(s, start + 1, end)

\* String.prototype.substr(start, length); a negative length gives ''
Substr(s, start, length) ==
  IF length <= 0 THEN <<>>
  ELSE SubSeq(s, start + 1, IF start + length > Len(s) THEN Len(s) ELSE start + length)

\* String.prototype.startsWith
StartsWith(s, p) == Len(s) >= Len(p) /\ SubSeq(s, 1, Len(p)) = p

\* String.prototype.endsWith
EndsWith(s, p) == Len(s) >= Len(p) /\ SubSeq(s, Len(s) - Len(p) + 1, Len(s)) = p

\* String.prototype.trim
Trim(s) ==
  LET keep == {i \in 1..Len(s) : s[i] \notin WhiteSpace}
  IN  IF keep = {} THEN <<>>
      ELSE SubSeq(s, CHOOSE i \in keep : \A j \in keep : i <= j,
                     CHOOSE i \in keep : \A j \in keep : i >= j)

RECURSIVE JsSplitFrom(_, _, _)
JsSplitFrom(s, d, start) ==
  LET end == IndexOf(s, d, start)
  IN  IF end = -1 THEN <<Substring(s, start, Len(s))>>
      ELSE <<Substring(s, start, end)>> \o JsSplitFrom(s, d, end + 1)

\* String.prototype.split(d) for a one-character separator: always at least
\* one piece, empty pieces kept
JsSplit(s, d) == JsSplitFrom(s, d, 0)

RECURSIVE JsJoin(_, _)
\* Array.prototype.join(sep)
JsJoin(parts, sep) ==
  IF parts = <<>> THEN <<>>
  ELSE IF Len(parts) = 1 THEN parts[1]
  ELSE parts[1] \o sep \o JsJoin(Tail(parts), sep)

\* Array.prototype.slice(1)
Slice1(parts) == IF parts = <<>> THEN <<>> ELSE Tail(parts)

RECURSIVE DigitsValue(_, _, _)
\* value of the run of decimal digits of s that starts at 1-based position i
DigitsValue(s, i, acc) ==
  IF i > Len(s) \/ s[i] \notin Digits THEN acc
  ELSE DigitsValue(s, i + 1, acc * 10 + DigitVal(s[i]))

\* parseInt(x, 10) of an optional string: leading white space is skipped, an
\* optional sign is read, then the longest run of digits; NaN when there is
\* none (in particular for `undefined`)
ParseInt(x) ==
  IF x = Undefined THEN NaN
  ELSE LET s == x[1]
           body == {i \in 1..Len(s) : s[i] \notin WhiteSpace}
           first == IF body = {} THEN Len(s) + 1
                    ELSE CHOOSE i \in body : \A j \in body : i <= j
           signed == first <= Len(s) /\ s[first] \in {"+", "-"}
           d == IF signed THEN first + 1 ELSE first
       IN  IF d > Len(s) \/ s[d] \notin Digits THEN NaN
           ELSE IF signed /\ s[first] = "-" THEN Num(0 - DigitsValue(s, d, 0))
           ELSE Num(DigitsValue(s, d, 0))

\* parts[i] of a JavaScript array, 0-based; undefined when out of range
At(parts, i) == IF i + 1 <= Len(parts) THEN Some(parts[i + 1]) ELSE Undefined

----------------------------------------------------------------------------
(* String literals of GitBlameParser. *)

\* a commit sha (the sha of the example of the blame listing)
ShaAbc == <<"a", "b", "c", "1", "2", "3">>

\* a commit sha that starts with six zeros only
ShaZeroD == <<"0", "0", "0", "0", "0", "0", "d">>

\* the pseudo-sha git prints for lines not yet committed (shortened)
ShaUncommitted == <<"0", "0", "0", "0", "0", "0", "0", "0">>

\* '0000000', the prefix isUncommittedSha looks for
UncommittedPrefix == <<"0", "0", "0", "0", "0", "0", "0">>

\* 'author'
TagAuthor == <<"a", "u", "t", "h", "o", "r">>

\* 'author-mail'
TagAuthorMail == <<"a", "u", "t", "h", "o", "r", "-", "m", "a", "i", "l">>

\* 'author-time'
TagAuthorTime == <<"a", "u", "t", "h", "o", "r", "-", "t", "i", "m", "e">>

\* 'author-tz'
TagAuthorTz == <<"a", "u", "t", "h", "o", "r", "-", "t", "z">>

\* 'summary'
TagSummary == <<"s", "u", "m", "m", "a", "r", "y">>

\* 'previous'
TagPrevious == <<"p", "r", "e", "v", "i", "o", "u", "s">>

\* 'filename'
TagFilename == <<"f", "i", "l", "e", "n", "a", "m", "e">>

\* 'You'
StrYou == <<"Y", "o", "u">>

\* 'uncommitted'
StrUncommitted == <<"u", "n", "c", "o", "m", "m", "i", "t", "t", "e", "d">>

----------------------------------------------------------------------------
(* GitBlameParser: the pure part. *)

\* strings.split(s, splitter) of @theia/core, a generator: the pieces of s
\* between occurrences of the splitter, from left to right, with no piece
\* after a trailing splitter and none at all for the empty string
RECURSIVE StringsSplitFrom(_, _, _)
StringsSplitFrom(s, splitter, start) ==
  IF start >= Len(s) THEN <<>>
  ELSE LET found == IndexOf(s, splitter, start)
           end == IF found = -1 THEN Len(s) ELSE found
       IN  <<Substring(s, start, end)>> \o StringsSplitFrom(s, splitter, end + 1)

StringsSplit(s, splitter) == StringsSplitFrom(s, splitter, 0)

\* GitBlameParser.Entry with every field undefined: `current = {}`
EmptyEntry ==
  [fileName |-> Undefined, sha |-> Undefined, previousSha |-> Undefined,
   line |-> Undefined, lineCount |-> Undefined, author |-> Undefined,
   authorMail |-> Undefined, authorTime |-> Undefined, authorTz |-> Undefined,
   summary |-> Undefined]

\* (sha || '').startsWith('0000000')
isUncommittedSha(sha) ==
  StartsWith(IF sha = Undefined THEN <<>> ELSE sha[1], UncommittedPrefix)

\* MatchAngle that takes the first group, brackets included
MatchAngleWithBrackets(rest) ==
  LET lt == IndexOf(rest, "<", 0)
      gt == LastIndexOf(rest, ">")
  IN  IF lt # -1 /\ gt > lt THEN Some(Substring(rest, lt, gt + 1)) ELSE Undefined

\* rest.match(/(<(.*)>)/): the second group, from after the first '<' to
\* before the last '>' of the text, when there is a '>' after a '<'
MatchAngle(rest) ==
  LET lt == IndexOf(rest, "<", 0)
      gt == LastIndexOf(rest, ">")
  IN  IF lt # -1 /\ gt > lt THEN Some(Substring(rest, lt + 1, gt)) ELSE Undefined

\* the summary branch of pumpEntry: one layer of surrounding quotes removed
StripQuotes(summary) ==
  IF StartsWith(summary, <<"\"">>) /\ EndsWith(summary, <<"\"">>)
  THEN Substr(summary, 1, Len(summary) - 2)
  ELSE summary

\* HeaderLine without the adjustment to zero based
HeaderLineOneBased(parts) == ParseInt(At(parts, 2))

\* the header branch of pumpEntry: `parseInt(parts[2], 10) - 1`, to zero based
HeaderLine(parts) == NumMinus(ParseInt(At(parts, 2)), Num(1))

\* the header branch of pumpEntry: `parseInt(parts[3], 10)`
HeaderLineCount(parts) == ParseInt(At(parts, 3))

\* AuthorOf that keeps the name git prints
AuthorOfLiteral(uncommitted, rest) == rest

\* the author branch of pumpEntry
AuthorOf(uncommitted, rest) == IF uncommitted THEN StrYou ELSE rest

\* the author-mail branch of pumpEntry
AuthorMailOf(rest) == IF MatchAngle(rest) # Undefined THEN MatchAngle(rest)[1] ELSE rest

\* the author-time branch of pumpEntry: `parseInt(parts[1], 10) * 1000`
AuthorTimeOf(parts) == NumTimes(ParseInt(At(parts, 1)), Num(1000))

\* the summary branch of pumpEntry
SummaryOf(uncommitted, rest) == IF uncommitted THEN StrUncommitted ELSE StripQuotes(rest)

\* pumpEntry that takes a line without a field tag as the header of a new
\* entry, also when an entry is accumulating
pumpEntryRestarting(entry, outputLine) ==
  LET parts == JsSplit(outputLine, " ")
      uncommitted == isUncommittedSha(entry.sha)
      firstPart == parts[1]
      rest == JsJoin(Slice1(parts), <<" ">>)
  IN  IF Len(parts) < 2 THEN [entry |-> entry, flush |-> FALSE]
      ELSE IF entry.sha = Undefined THEN
        [entry |-> [entry EXCEPT !.sha = Some(firstPart),
                                 !.line = Some(HeaderLine(parts)),
                                 !.lineCount = Some(HeaderLineCount(parts))],
         flush |-> FALSE]
      ELSE IF firstPart = TagAuthor THEN
        [entry |-> [entry EXCEPT !.author = Some(AuthorOf(uncommitted, rest))],
         flush |-> FALSE]
      ELSE IF firstPart = TagAuthorMail THEN
        [entry |-> [entry EXCEPT !.authorMail = Some(AuthorMailOf(rest))], flush |-> FALSE]
      ELSE IF firstPart = TagAuthorTime THEN
        [entry |-> [entry EXCEPT !.authorTime = Some(AuthorTimeOf(parts))], flush |-> FALSE]
      ELSE IF firstPart = TagAuthorTz THEN
        [entry |-> [entry EXCEPT !.authorTz = Some(ParseInt(At(parts, 1)))],
         flush |-> FALSE]
      ELSE IF firstPart = TagSummary THEN
        [entry |-> [entry EXCEPT !.summary = Some(SummaryOf(uncommitted, rest))],
         flush |-> FALSE]
      ELSE IF firstPart = TagPrevious THEN
        [entry |-> [entry EXCEPT !.previousSha = At(parts, 1)], flush |-> FALSE]
      ELSE IF firstPart = TagFilename THEN
        [entry |-> [entry EXCEPT !.fileName = Some(rest)], flush |-> TRUE]
      ELSE [entry |-> [EmptyEntry EXCEPT !.sha = Some(firstPart),
                                         !.line = Some(HeaderLine(parts)),
                                         !.lineCount = Some(HeaderLineCount(parts))],
            flush |-> FALSE]

\* pumpEntry(entry, outputLine): the entry after the line and whether the
\* line completes it
pumpEntry(entry, outputLine) ==
  LET parts == JsSplit(outputLine, " ")
      uncommitted == isUncommittedSha(entry.sha)
      firstPart == parts[1]
      rest == JsJoin(Slice1(parts), <<" ">>)
  IN  IF Len(parts) < 2 THEN [entry |-> entry, flush |-> FALSE]
      ELSE IF entry.sha = Undefined THEN
        [entry |-> [entry EXCEPT !.sha = Some(firstPart),
                                 !.line = Some(HeaderLine(parts)),
                                 !.lineCount = Some(HeaderLineCount(parts))],
         flush |-> FALSE]
      ELSE IF firstPart = TagAuthor THEN
        [entry |-> [entry EXCEPT !.author = Some(AuthorOf(uncommitted, rest))],
         flush |-> FALSE]
      ELSE IF firstPart = TagAuthorMail THEN
        [entry |-> [entry EXCEPT !.authorMail = Some(AuthorMailOf(rest))], flush |-> FALSE]
      ELSE IF firstPart = TagAuthorTime THEN
        [entry |-> [entry EXCEPT !.authorTime = Some(AuthorTimeOf(parts))], flush |-> FALSE]
      ELSE IF firstPart = TagAuthorTz THEN
        [entry |-> [entry EXCEPT !.authorTz = Some(ParseInt(At(parts, 1)))],
         flush |-> FALSE]
      ELSE IF firstPart = TagSummary THEN
        [entry |-> [entry EXCEPT !.summary = Some(SummaryOf(uncommitted, rest))],
         flush |-> FALSE]
      ELSE IF firstPart = TagPrevious THEN
        [entry |-> [entry EXCEPT !.previousSha = At(parts, 1)], flush |-> FALSE]
      ELSE IF firstPart = TagFilename THEN
        [entry |-> [entry EXCEPT !.fileName = Some(rest)], flush |-> TRUE]
      ELSE [entry |-> entry, flush |-> FALSE]

\* the Commit createFileBlame synthesizes for an entry whose sha is new
CommitOf(entry, body) ==
  [sha |-> entry.sha[1],
   author |-> [name |-> entry.author, email |-> entry.authorMail,
               timestamp |-> entry.authorTime, tzOffset |-> entry.authorTz],
   summary |-> entry.summary,
   body |-> body]

\* EntryKeys of a loop that stops one line early
EntryKeysShort(entry) ==
  LET lineCount == entry.lineCount[1]
  IN  IF lineCount.nan THEN {}
      ELSE {NumPlus(entry.line[1], Num(lineOffset)) : lineOffset \in 0..(lineCount.n - 2)}

\* the keys lines[line.line] = line is written at for one entry: entry.line +
\* lineOffset for 0 <= lineOffset < lineCount (none when lineCount is NaN)
EntryKeys(entry) ==
  LET lineCount == entry.lineCount[1]
  IN  IF lineCount.nan THEN {}
      ELSE {NumPlus(entry.line[1], Num(lineOffset)) : lineOffset \in 0..(lineCount.n - 1)}

\* WriteLines that keeps what an index was attributed to first
WriteLinesFirstWins(lines, entry) ==
  [k \in DOMAIN lines \cup EntryKeys(entry) |->
     IF k \in DOMAIN lines THEN lines[k] ELSE [sha |-> entry.sha[1], line |-> k]]

\* `lines` after the inner loop of createFileBlame has run for one entry;
\* the array is a function from the keys written so far to CommitLine
WriteLines(lines, entry) ==
  [k \in DOMAIN lines \cup EntryKeys(entry) |->
     IF k \in EntryKeys(entry) THEN [sha |-> entry.sha[1], line |-> k] ELSE lines[k]]

\* the keys of a JavaScript array that are array indices (elements): the
\* non-negative integers; a write at -1 or at NaN only adds a property
ElementKeys(lines) == {k \in DOMAIN lines : ~k.nan /\ k.n >= 0}

\* lines.length: one more than the largest array index written
ArrayLength(lines) ==
  IF ElementKeys(lines) = {} THEN 0
  ELSE (CHOOSE k \in ElementKeys(lines) : \A j \in ElementKeys(lines) : j.n <= k.n).n + 1

\* the body commitBodyReader extracts from the output of
\* `rev-list --format=%B --max-count=1 <sha>`: what follows the second
\* newline (or the first, when it is at position 0), trimmed
RevListBody(revOutput) ==
  LET nl1 == IndexOf(revOutput, "\n", 0)
      nl == IF nl1 > 0 THEN IndexOf(revOutput, "\n", nl1 + 1) ELSE nl1
      from == IF nl > 0 THEN nl ELSE 0
  IN  Trim(Substring(revOutput, from, Len(revOutput)))

\* the loop of parseEntries over the lines that are left, from the entry
\* being accumulated and the entries flushed so far
RECURSIVE ParseEntriesFrom(_, _, _)
ParseEntriesFrom(rest, cur, acc) ==
  IF rest = <<>> THEN acc
  ELSE LET pumped == pumpEntry(IF cur = Undefined THEN EmptyEntry ELSE cur[1], Head(rest))
       IN  IF pumped.flush
           THEN ParseEntriesFrom(Tail(rest), Undefined, Append(acc, pumped.entry))
           ELSE ParseEntriesFrom(Tail(rest), Some(pumped.entry), acc)

\* GitBlameParser.parseEntries(rawOutput)
parseEntries(rawOutput) == ParseEntriesFrom(StringsSplit(rawOutput, "\n"), Undefined, <<>>)

----------------------------------------------------------------------------
(* The blame streams the parser is run on: `git blame --incremental` output *)
(* made of hunks, every line followed by a newline.                        *)

\* the hunk of the example of the blame listing (author-time shortened): line 10 (key 9)
HunkExample ==
  << <<"a", "b", "c", "1", "2", "3", " ", "1", " ", "1", "0", " ", "1">>,  \* abc123 1 10 1
     <<"a", "u", "t", "h", "o", "r", " ", "J", "a", "n", "e">>,  \* author Jane
     <<"a", "u", "t", "h", "o", "r", "-", "m", "a", "i", "l", " ", "<", "j", "a", "n", "e", "@", "x", ".", "c", "o", "m", ">">>,  \* author-mail <jane@x.com>
     <<"a", "u", "t", "h", "o", "r", "-", "t", "i", "m", "e", " ", "1", "6">>,  \* author-time 16
     <<"s", "u", "m", "m", "a", "r", "y", " ", "\"", "f", "i", "x", " ", "b", "u", "g", "\"">>,  \* summary "fix bug"
     <<"f", "i", "l", "e", "n", "a", "m", "e", " ", "f", "o", "o", ".", "t", "s">> >>  \* filename foo.ts

\* a later hunk of abc123, as git prints it: header and terminator only; lines 1-2 (keys 0, 1)
HunkContinuation ==
  << <<"a", "b", "c", "1", "2", "3", " ", "5", " ", "1", " ", "2">>,  \* abc123 5 1 2
     <<"f", "i", "l", "e", "n", "a", "m", "e", " ", "f", "o", "o", ".", "t", "s">> >>  \* filename foo.ts

\* a hunk of 000000d with every field, a mail without brackets, a doubly quoted summary; lines 3-4 (keys 2, 3)
HunkBob ==
  << <<"0", "0", "0", "0", "0", "0", "d", " ", "2", " ", "3", " ", "2">>,  \* 000000d 2 3 2
     <<"a", "u", "t", "h", "o", "r", " ", "B", "o", "b", " ", "L", "e", "e">>,  \* author Bob Lee
     <<"a", "u", "t", "h", "o", "r", "-", "m", "a", "i", "l", " ", "b", "@", "x">>,  \* author-mail b@x
     <<"a", "u", "t", "h", "o", "r", "-", "t", "i", "m", "e", " ", "7">>,  \* author-time 7
     <<"a", "u", "t", "h", "o", "r", "-", "t", "z", " ", "-", "0", "2", "0", "0">>,  \* author-tz -0200
     <<"s", "u", "m", "m", "a", "r", "y", " ", "\"", "\"", "q", "\"", "\"">>,  \* summary ""q""
     <<"p", "r", "e", "v", "i", "o", "u", "s", " ", "a", "b", "c", "1", "2", "3", " ", "f", "o", "o", ".", "t", "s">>,  \* previous abc123 foo.ts
     <<"f", "i", "l", "e", "n", "a", "m", "e", " ", "f", "o", "o", ".", "t", "s">> >>  \* filename foo.ts

\* a hunk of uncommitted lines with the fields git prints for it; lines 2-3 (keys 1, 2)
HunkUncommitted ==
  << <<"0", "0", "0", "0", "0", "0", "0", "0", " ", "4", " ", "2", " ", "2">>,  \* 00000000 4 2 2
     <<"a", "u", "t", "h", "o", "r", " ", "N", "o", "t", " ", "Y", "e", "t">>,  \* author Not Yet
     <<"a", "u", "t", "h", "o", "r", "-", "m", "a", "i", "l", " ", "<", "n", ".", "c", ">">>,  \* author-mail <n.c>
     <<"a", "u", "t", "h", "o", "r", "-", "t", "i", "m", "e", " ", "9">>,  \* author-time 9
     <<"s", "u", "m", "m", "a", "r", "y", " ", "\"", "w", "i", "p", "\"">>,  \* summary "wip"
     <<"f", "i", "l", "e", "n", "a", "m", "e", " ", "f", "o", "o", ".", "t", "s">> >>  \* filename foo.ts

\* a later hunk of uncommitted lines: header and terminator only; line 12 (key 11)
HunkUncommittedBare ==
  << <<"0", "0", "0", "0", "0", "0", "0", "0", " ", "9", " ", "1", "2", " ", "1">>,  \* 00000000 9 12 1
     <<"f", "i", "l", "e", "n", "a", "m", "e", " ", "f", "o", "o", ".", "t", "s">> >>  \* filename foo.ts

\* a hunk of abc123 with other field values and no mail or time; line 1 (key 0)
HunkEve ==
  << <<"a", "b", "c", "1", "2", "3", " ", "1", " ", "1", " ", "1">>,  \* abc123 1 1 1
     <<"a", "u", "t", "h", "o", "r", " ", "E", "v", "e">>,  \* author Eve
     <<"s", "u", "m", "m", "a", "r", "y", " ", "o", "t", "h", "e", "r">>,  \* summary other
     <<"f", "i", "l", "e", "n", "a", "m", "e", " ", "f", "o", "o", ".", "t", "s">> >>  \* filename foo.ts

\* a hunk whose header has two parts only and whose summary is a lone quote
HunkShortHeader ==
  << <<"0", "0", "0", "0", "0", "0", "d", " ", "7">>,  \* 000000d 7
     <<"s", "u", "m", "m", "a", "r", "y", " ", "\"">>,  \* summary "
     <<"f", "i", "l", "e", "n", "a", "m", "e", " ", "f", "o", "o", ".", "t", "s">> >>  \* filename foo.ts

\* a hunk of 000000d without its filename line; line 6 (key 5)
HunkUnterminated ==
  << <<"0", "0", "0", "0", "0", "0", "d", " ", "1", " ", "6", " ", "1">>,  \* 000000d 1 6 1
     <<"a", "u", "t", "h", "o", "r", " ", "B", "o", "b", " ", "L", "e", "e">> >>  \* author Bob Lee

\* an empty line
HunkBlank ==
  << <<>> >>  \* 

\* a hunk of abc123 whose header gives 0 as the line in the file (key -1)
HunkLineZero ==
  << <<"a", "b", "c", "1", "2", "3", " ", "1", " ", "0", " ", "1">>,  \* abc123 1 0 1
     <<"f", "i", "l", "e", "n", "a", "m", "e", " ", "f", "o", "o", ".", "t", "s">> >>  \* filename foo.ts

BlameHunks ==
  <<HunkExample, HunkContinuation, HunkBob,
    HunkUncommitted, HunkUncommittedBare, HunkEve,
    HunkShortHeader, HunkUnterminated, HunkBlank, HunkLineZero>>

\* the hunks of the streams that are cut at every position
CutHunks == {1, 4, 8}

RECURSIVE Concat(_)
\* the concatenation of a sequence of strings
Concat(ss) == IF ss = <<>> THEN <<>> ELSE ss[1] \o Concat(Tail(ss))

\* the text of a hunk: each of its lines followed by a newline
HunkText(h) == Concat([i \in 1..Len(BlameHunks[h]) |-> BlameHunks[h][i] \o <<"\n">>])

\* the stream made of the hunks hs, in order
StreamOf(hs) == Concat([i \in 1..Len(hs) |-> HunkText(hs[i])])

\* the sequences of at most n elements of S
SeqsUpTo(S, n) == UNION {[1..k -> S] : k \in 0..n}

\* the body the caller's own commitBody function resolves to for a sha
MockBody(sha) == <<"B", ":">> \o sha

\* what `git rev-list --format=%B --max-count=1 <sha>` prints: the commit
\* line, the subject, an empty line, the body
RevListOutput(sha) ==
  <<"c", "o", "m", "m", "i", "t", " ">> \o sha
    \o <<"\n", "s", "u", "b", "j", "\n", "\n", "m", "s", "g", " ">> \o sha \o <<"\n", "\n">>

\* the uri the blame is asked for
FileUriOfBlame == <<"f", "i", "l", "e", ":", "/", "/", "/", "r", "/", "f", "o", "o", ".", "t", "s">>

----------------------------------------------------------------------------
(* State. *)

VARIABLES
  caller,         \* "blame": DugiteGit.blame runs the parse with its
                  \* commitBodyReader; "direct": a caller of
                  \* GitBlameParser.parse with a commitBody of its own
  fileIsNew,      \* the working-directory status lists the file as New
  hunks,          \* the hunks git prints for the file, by index in BlameHunks
  stdout,         \* the output of the blame command: the stream, or the
                  \* prefix that arrived before the process was killed
  gitBlameOutput, \* the text GitBlameParser.parse is given
  pc,             \* where the call is
  pending,        \* parseEntries: the lines not yet pumped
  current,        \* parseEntries: the entry being accumulated, if any
  parsedEntries,  \* parseEntries: the entries flushed so far (`result`)
  entryIdx,       \* createFileBlame: position in blameEntries, from 1
  commits,        \* createFileBlame: the Map sha -> Commit, in insertion order
  lines,          \* createFileBlame: the lines array
  bodyCalls,      \* the shas commitBody was called with, in call order
  revListExecs,   \* the shas `git rev-list` was run for, in order
  result          \* what the call returned

blameVars ==
  <<caller, fileIsNew, hunks, stdout, gitBlameOutput, pc, pending, current,
    parsedEntries, entryIdx, commits, lines, bodyCalls, revListExecs, result>>

NoResult == [kind |-> "none", uri |-> <<>>, commits |-> <<>>, lines |-> <<>>]

\* `return undefined`
AbsentResult == [kind |-> "undefined", uri |-> <<>>, commits |-> <<>>, lines |-> <<>>]

\* the promise of the call was rejected
RejectedResult == [kind |-> "rejected", uri |-> <<>>, commits |-> <<>>, lines |-> <<>>]

\* `<GitFileBlame>{ uri, commits: Array.from(commits.values()), lines }`
FileBlame(uri, cs, ls) == [kind |-> "blame", uri |-> uri, commits |-> cs, lines |-> ls]

\* the state of a call before it has run, for a stream and a caller
BlameStart(hs, out, who, new) ==
  /\ hunks = hs
  /\ stdout = out
  /\ caller = who
  /\ fileIsNew = new
  /\ gitBlameOutput = IF who = "direct" THEN out ELSE <<>>
  /\ pc = IF who = "direct" THEN "parse" ELSE "blame"
  /\ pending = <<>>
  /\ current = Undefined
  /\ parsedEntries = <<>>
  /\ entryIdx = 0
  /\ commits = <<>>
  /\ lines = <<>>
  /\ bodyCalls = <<>>
  /\ revListExecs = <<>>
  /\ result = NoResult

\* a whole stream of at most MaxHunks hunks
InitWhole ==
  \E hs \in SeqsUpTo(1..Len(BlameHunks), MaxHunks) :
    \E who \in {"blame", "direct"} :
      \E new \in (IF who = "blame" THEN BOOLEAN ELSE {FALSE}) :
        BlameStart(hs, StreamOf(hs), who, new)

\* a stream of at most MaxCutHunks hunks that stops at any position
InitCut ==
  \E hs \in SeqsUpTo(CutHunks, MaxCutHunks) :
    \E n \in 0..Len(StreamOf(hs)) :
      BlameStart(hs, SubSeq(StreamOf(hs), 1, n), "direct", FALSE)

\* the streams a blame is run on
InitStreams == InitWhole \/ InitCut

----------------------------------------------------------------------------
(* DugiteGit.blame *)

\* DugiteBlameNew that runs the blame command for the new file all the same
DugiteBlameNewRunning ==
  /\ pc = "blame"
  /\ fileIsNew
  /\ gitBlameOutput' = Trim(stdout)
  /\ pc' = "parse"
  /\ UNCHANGED <<caller, fileIsNew, hunks, stdout, pending, current, parsedEntries,
                 entryIdx, commits, lines, bodyCalls, revListExecs, result>>

\* the file is New in the working directory: `return undefined`
DugiteBlameNew ==
  /\ pc = "blame"
  /\ fileIsNew
  /\ pc' = "done"
  /\ result' = AbsentResult
  /\ UNCHANGED <<caller, fileIsNew, hunks, stdout, gitBlameOutput, pending, current,
                 parsedEntries, entryIdx, commits, lines, bodyCalls, revListExecs>>

\* the blame command is run and blameParser.parse is called with its
\* trimmed output
DugiteBlameExec ==
  /\ pc = "blame"
  /\ ~fileIsNew
  /\ gitBlameOutput' = Trim(stdout)
  /\ pc' = "parse"
  /\ UNCHANGED <<caller, fileIsNew, hunks, stdout, pending, current, parsedEntries,
                 entryIdx, commits, lines, bodyCalls, revListExecs, result>>

----------------------------------------------------------------------------
(* GitBlameParser.parse and parseEntries *)

\* ParseEmpty that returns a FileBlame without commits and lines
ParseEmptyAsBlame ==
  /\ pc = "parse"
  /\ gitBlameOutput = <<>>
  /\ pc' = "done"
  /\ result' = FileBlame(FileUriOfBlame, <<>>, <<>>)
  /\ UNCHANGED <<caller, fileIsNew, hunks, stdout, gitBlameOutput, pending, current,
                 parsedEntries, entryIdx, commits, lines, bodyCalls, revListExecs>>

\* `if (!gitBlameOutput) return undefined`
ParseEmpty ==
  /\ pc = "parse"
  /\ gitBlameOutput = <<>>
  /\ pc' = "done"
  /\ result' = AbsentResult
  /\ UNCHANGED <<caller, fileIsNew, hunks, stdout, gitBlameOutput, pending, current,
                 parsedEntries, entryIdx, commits, lines, bodyCalls, revListExecs>>

\* ParseStart of a parse that takes an output of white space as no output
ParseStartUnlessBlank ==
  /\ pc = "parse"
  /\ gitBlameOutput # <<>>
  /\ IF Trim(gitBlameOutput) = <<>>
     THEN /\ pc' = "done"
          /\ result' = AbsentResult
          /\ UNCHANGED <<pending, current, parsedEntries>>
     ELSE /\ pending' = StringsSplit(gitBlameOutput, "\n")
          /\ current' = Undefined
          /\ parsedEntries' = <<>>
          /\ pc' = "parseEntries"
          /\ UNCHANGED result
  /\ UNCHANGED <<caller, fileIsNew, hunks, stdout, gitBlameOutput, entryIdx, commits,
                 lines, bodyCalls, revListExecs>>

\* parseEntries starts to iterate over strings.split(rawOutput, '\n')
ParseStart ==
  /\ pc = "parse"
  /\ gitBlameOutput # <<>>
  /\ pending' = StringsSplit(gitBlameOutput, "\n")
  /\ current' = Undefined
  /\ parsedEntries' = <<>>
  /\ pc' = "parseEntries"
  /\ UNCHANGED <<caller, fileIsNew, hunks, stdout, gitBlameOutput, entryIdx, commits,
                 lines, bodyCalls, revListExecs, result>>

\* PumpLine that keeps the flushed entry as the current one
PumpLineKeepingCurrent ==
  /\ pc = "parseEntries"
  /\ pending # <<>>
  /\ LET entry == IF current = Undefined THEN EmptyEntry ELSE current[1]
         pumped == pumpEntry(entry, Head(pending))
     IN  /\ parsedEntries' = IF pumped.flush THEN Append(parsedEntries, pumped.entry)
                             ELSE parsedEntries
         /\ current' = Some(pumped.entry)
  /\ pending' = Tail(pending)
  /\ UNCHANGED <<caller, fileIsNew, hunks, stdout, gitBlameOutput, pc, entryIdx, commits,
                 lines, bodyCalls, revListExecs, result>>

\* one iteration of the loop of parseEntries
PumpLine ==
  /\ pc = "parseEntries"
  /\ pending # <<>>
  /\ LET entry == IF current = Undefined THEN EmptyEntry ELSE current[1]
         pumped == pumpEntry(entry, Head(pending))
     IN  /\ parsedEntries' = IF pumped.flush THEN Append(parsedEntries, pumped.entry)
                             ELSE parsedEntries
         /\ current' = IF pumped.flush THEN Undefined ELSE Some(pumped.entry)
  /\ pending' = Tail(pending)
  /\ UNCHANGED <<caller, fileIsNew, hunks, stdout, gitBlameOutput, pc, entryIdx, commits,
                 lines, bodyCalls, revListExecs, result>>

\* ParseEntriesReturn that also pushes the entry left in `current`
ParseEntriesReturnFlushing ==
  /\ pc = "parseEntries"
  /\ pending = <<>>
  /\ pc' = "createFileBlame"
  /\ entryIdx' = 1
  /\ commits' = <<>>
  /\ lines' = <<>>
  /\ parsedEntries' = IF current # Undefined /\ current[1].sha # Undefined
                      THEN Append(parsedEntries, current[1])
                      ELSE parsedEntries
  /\ UNCHANGED <<caller, fileIsNew, hunks, stdout, gitBlameOutput, pending, current,
                 bodyCalls, revListExecs, result>>

\* parseEntries returns and createFileBlame starts
ParseEntriesReturn ==
  /\ pc = "parseEntries"
  /\ pending = <<>>
  /\ pc' = "createFileBlame"
  /\ entryIdx' = 1
  /\ commits' = <<>>
  /\ lines' = <<>>
  /\ UNCHANGED <<caller, fileIsNew, hunks, stdout, gitBlameOutput, pending, current,
                 parsedEntries, bodyCalls, revListExecs, result>>

----------------------------------------------------------------------------
(* GitBlameParser.createFileBlame *)

\* HasCommit that only looks at the commit put in the map last
HasCommitLast(cs, sha) == cs # <<>> /\ cs[Len(cs)].sha = sha

\* commits.get(sha) finds a commit
HasCommit(cs, sha) == \E i \in 1..Len(cs) : cs[i].sha = sha

\* the entry of the current iteration
ThisEntry == parsedEntries[entryIdx]

\* EntryNewSha that writes the lines of the entry before the body is there
EntryNewShaWritingLines ==
  /\ pc = "createFileBlame"
  /\ entryIdx <= Len(parsedEntries)
  /\ ~HasCommit(commits, ThisEntry.sha[1])
  /\ bodyCalls' = Append(bodyCalls, ThisEntry.sha[1])
  /\ revListExecs' = IF caller = "blame" /\ ~isUncommittedSha(ThisEntry.sha)
                     THEN Append(revListExecs, ThisEntry.sha[1])
                     ELSE revListExecs
  /\ lines' = WriteLines(lines, ThisEntry)
  /\ pc' = "awaitBody"
  /\ UNCHANGED <<caller, fileIsNew, hunks, stdout, gitBlameOutput, pending, current,
                 parsedEntries, entryIdx, commits, result>>

\* the sha is not in the map: commitBody(sha) is called and awaited.  The
\* commitBodyReader of DugiteGit.blame runs rev-list, unless the sha is the
\* uncommitted one
EntryNewSha ==
  /\ pc = "createFileBlame"
  /\ entryIdx <= Len(parsedEntries)
  /\ ~HasCommit(commits, ThisEntry.sha[1])
  /\ bodyCalls' = Append(bodyCalls, ThisEntry.sha[1])
  /\ revListExecs' = IF caller = "blame" /\ ~isUncommittedSha(ThisEntry.sha)
                     THEN Append(revListExecs, ThisEntry.sha[1])
                     ELSE revListExecs
  /\ pc' = "awaitBody"
  /\ UNCHANGED <<caller, fileIsNew, hunks, stdout, gitBlameOutput, pending, current,
                 parsedEntries, entryIdx, commits, lines, result>>

\* BodyFor with a commitBodyReader that runs rev-list for every sha
BodyForEverySha(who, sha) ==
  IF who = "blame" THEN RevListBody(RevListOutput(sha)) ELSE MockBody(sha)

\* the body commitBody(sha) resolves to
BodyFor(who, sha) ==
  IF who = "blame"
  THEN IF isUncommittedSha(Some(sha)) THEN <<>> ELSE RevListBody(RevListOutput(sha))
  ELSE MockBody(sha)

\* the commits and lines createFileBlame builds from the entries from
\* position i on, when every commitBody(sha) resolves
RECURSIVE CreateFileBlameFrom(_, _, _, _, _)
CreateFileBlameFrom(entries, i, cs, ls, who) ==
  IF i > Len(entries) THEN [commits |-> cs, lines |-> ls]
  ELSE LET entry == entries[i]
       IN  CreateFileBlameFrom(entries, i + 1,
             IF HasCommit(cs, entry.sha[1]) THEN cs
             ELSE Append(cs, CommitOf(entry, BodyFor(who, entry.sha[1]))),
             WriteLines(ls, entry), who)

\* BodyResolved that puts the new commit before the commits of the map
BodyResolvedInFront ==
  /\ pc = "awaitBody"
  /\ commits' = <<CommitOf(ThisEntry, BodyFor(caller, ThisEntry.sha[1]))>> \o commits
  /\ lines' = WriteLines(lines, ThisEntry)
  /\ entryIdx' = entryIdx + 1
  /\ pc' = "createFileBlame"
  /\ UNCHANGED <<caller, fileIsNew, hunks, stdout, gitBlameOutput, pending, current,
                 parsedEntries, bodyCalls, revListExecs, result>>

\* the awaited body arrives: the commit is put in the map and the lines of
\* the entry are written
BodyResolved ==
  /\ pc = "awaitBody"
  /\ commits' = Append(commits, CommitOf(ThisEntry, BodyFor(caller, ThisEntry.sha[1])))
  /\ lines' = WriteLines(lines, ThisEntry)
  /\ entryIdx' = entryIdx + 1
  /\ pc' = "createFileBlame"
  /\ UNCHANGED <<caller, fileIsNew, hunks, stdout, gitBlameOutput, pending, current,
                 parsedEntries, bodyCalls, revListExecs, result>>

\* BodyRejected of a loop that catches the rejection and goes on with the
\* next entry
BodyRejectedSkipped ==
  /\ pc = "awaitBody"
  /\ caller = "blame" => ~isUncommittedSha(ThisEntry.sha)
  /\ entryIdx' = entryIdx + 1
  /\ pc' = "createFileBlame"
  /\ UNCHANGED <<caller, fileIsNew, hunks, stdout, gitBlameOutput, pending, current,
                 parsedEntries, commits, lines, bodyCalls, revListExecs, result>>

\* the awaited promise is rejected (the caller's function fails, or the
\* rev-list command does): the rejection leaves createFileBlame and parse
BodyRejected ==
  /\ pc = "awaitBody"
  /\ caller = "blame" => ~isUncommittedSha(ThisEntry.sha)
  /\ pc' = "rejected"
  /\ result' = RejectedResult
  /\ UNCHANGED <<caller, fileIsNew, hunks, stdout, gitBlameOutput, pending, current,
                 parsedEntries, entryIdx, commits, lines, bodyCalls, revListExecs>>

\* EntryKnownSha that brings the commit of the sha up to date with the
\* fields of the entry
EntryKnownShaUpdating ==
  /\ pc = "createFileBlame"
  /\ entryIdx <= Len(parsedEntries)
  /\ HasCommit(commits, ThisEntry.sha[1])
  /\ commits' = [i \in 1..Len(commits) |->
                   IF commits[i].sha = ThisEntry.sha[1]
                   THEN CommitOf(ThisEntry, commits[i].body) ELSE commits[i]]
  /\ lines' = WriteLines(lines, ThisEntry)
  /\ entryIdx' = entryIdx + 1
  /\ UNCHANGED <<caller, fileIsNew, hunks, stdout, gitBlameOutput, pc, pending, current,
                 parsedEntries, bodyCalls, revListExecs, result>>

\* the sha is in the map already: only the lines of the entry are written
EntryKnownSha ==
  /\ pc = "createFileBlame"
  /\ entryIdx <= Len(parsedEntries)
  /\ HasCommit(commits, ThisEntry.sha[1])
  /\ lines' = WriteLines(lines, ThisEntry)
  /\ entryIdx' = entryIdx + 1
  /\ UNCHANGED <<caller, fileIsNew, hunks, stdout, gitBlameOutput, pc, pending, current,
                 parsedEntries, commits, bodyCalls, revListExecs, result>>

\* CreateFileBlameReturn that leaves the first commit of the map out
CreateFileBlameReturnWithoutFirst ==
  /\ pc = "createFileBlame"
  /\ entryIdx > Len(parsedEntries)
  /\ result' = FileBlame(FileUriOfBlame, IF commits = <<>> THEN commits ELSE Tail(commits), lines)
  /\ pc' = "done"
  /\ UNCHANGED <<caller, fileIsNew, hunks, stdout, gitBlameOutput, pending, current,
                 parsedEntries, entryIdx, commits, lines, bodyCalls, revListExecs>>

\* the loop is over: the FileBlame is returned
CreateFileBlameReturn ==
  /\ pc = "createFileBlame"
  /\ entryIdx > Len(parsedEntries)
  /\ result' = FileBlame(FileUriOfBlame, commits, lines)
  /\ pc' = "done"
  /\ UNCHANGED <<caller, fileIsNew, hunks, stdout, gitBlameOutput, pending, current,
                 parsedEntries, entryIdx, commits, lines, bodyCalls, revListExecs>>

----------------------------------------------------------------------------
(* NameStatusParser and the status mapping of DugiteGit: values. *)

\* the NUL character, OutputParser.LINE_DELIMITER
LINE_DELIMITER == "\\0"

\* paths of the repository, relative to its root
PathFoo == <<"a", "/", "f", "o", "o", ".", "t", "s">>

PathBar == <<"b", "/", "b", "a", "r", ".", "t", "s">>

PathBar2 == <<"b", "/", "b", "a", "r", "2", ".", "t", "s">>

\* the uri of the repository
RepositoryUri == <<"f", "i", "l", "e", ":", "/", "/", "/", "r">>

\* FileUri.fsPath(RepositoryUri)
RepositoryPath == <<"/", "r">>

\* the scheme and the empty authority of a file uri
FileScheme == <<"f", "i", "l", "e", ":", "/", "/">>

\* the records a `--name-status -z` listing is made of, as tokens: a status
\* and a path, or a similarity status, the old path and the new path; an
\* unknown status; a token that is empty and one that is a blank
NameStatusRecords ==
  << << <<"M">>, PathFoo >>,
     << <<"D">>, PathBar >>,
     << <<"R", "1", "0", "0">>, PathBar, PathBar2 >>,
     << <<"C", "7", "5">>, PathFoo, PathBar >>,
     << <<"Z">>, PathFoo >>,
     << <<>> >>,
     << <<" ">> >> >>

\* GitFileStatus, the status enumeration of the records
GitFileStatus == {"New", "Copied", "Modified", "Renamed", "Deleted", "Conflicted"}

\* GitUtils.mapStatus(rawStatus): the status the first letter of the raw
\* status stands for; any other raw status is an error that names it
mapStatus(rawStatus) ==
  LET letter == IF rawStatus = <<>> THEN "" ELSE rawStatus[1]
  IN  CASE letter = "M" -> [ok |-> TRUE, status |-> "Modified", error |-> <<>>]
        [] letter = "A" -> [ok |-> TRUE, status |-> "New", error |-> <<>>]
        [] letter = "D" -> [ok |-> TRUE, status |-> "Deleted", error |-> <<>>]
        [] letter = "R" -> [ok |-> TRUE, status |-> "Renamed", error |-> <<>>]
        [] letter = "C" -> [ok |-> TRUE, status |-> "Copied", error |-> <<>>]
        [] letter = "U" -> [ok |-> TRUE, status |-> "Conflicted", error |-> <<>>]
        [] OTHER -> [ok |-> FALSE, status |-> "", error |-> rawStatus]

\* GitUtils.isSimilarityStatus(rawStatus): R or C followed by the digits of
\* the similarity score
isSimilarityStatus(rawStatus) ==
  /\ Len(rawStatus) >= 2
  /\ rawStatus[1] \in {"R", "C"}
  /\ \A i \in 2..Len(rawStatus) : rawStatus[i] \in Digits

\* the characters a uri keeps as they are in a path; the model encodes the
\* blank and leaves the others
UriEncode(path) ==
  Concat([i \in 1..Len(path) |-> IF path[i] = " " THEN <<"%", "2", "0">> ELSE <<path[i]>>])

\* Path.join(root, segment) for a root without a trailing slash and a
\* segment without `.`, `..` or doubled slashes: the two joined by a slash,
\* the root alone when the segment is empty
PathJoin(root, segment) == IF segment = <<>> THEN root ELSE root \o <<"/">> \o segment

\* toUri that joins a missing path segment as if it were empty
toUriOfMissing(pathSegment) ==
  IF pathSegment = Undefined
  THEN [ok |-> TRUE, uri |-> FileScheme \o UriEncode(PathJoin(RepositoryPath, <<>>))]
  ELSE [ok |-> TRUE, uri |-> FileScheme \o UriEncode(PathJoin(RepositoryPath, pathSegment[1]))]

\* OutputParser.toUri(repositoryUri, pathSegment) for the model's
\* repository; pathSegment is optional, and Path.join throws a TypeError
\* when it is undefined
toUri(pathSegment) ==
  IF pathSegment = Undefined THEN [ok |-> FALSE, uri |-> <<>>]
  ELSE [ok |-> TRUE, uri |-> FileScheme \o UriEncode(PathJoin(RepositoryPath, pathSegment[1]))]

\* the item is made of white space only (the empty item included)
IsBlank(item) == \A i \in 1..Len(item) : item[i] \in WhiteSpace

\* a filter that drops the items made of white space as well
KeepItemNotBlank(item) == ~IsBlank(item)

\* the filter of OutputParser.split: `item && item.length > 0`
KeepItem(item) == item # <<>>

\* split that takes a string for one item
splitUnsplit(input, delimiter) ==
  SelectSeq(IF input.isArray THEN input.items ELSE <<input.text>>, KeepItem)

\* OutputParser.split(input, delimiter): the array, or the string split at
\* the delimiter, without its empty items
split(input, delimiter) ==
  SelectSeq(IF input.isArray THEN input.items ELSE JsSplit(input.text, delimiter), KeepItem)

NoError == [kind |-> "none", raw |-> <<>>]

\* `Unexpected application file status: ${raw}`
UnexpectedStatus(raw) == [kind |-> "unexpected status", raw |-> raw]

\* the TypeError of Path.join for an argument that is not a string
PathTypeError == [kind |-> "TypeError", raw |-> <<>>]

\* a GitFileChange without oldUri
Change(status, uri) == [status |-> status, uri |-> uri, oldUri |-> Undefined, staged |-> Undefined]

\* a GitFileChange with oldUri
ChangeFrom(status, uri, oldUri) ==
  [status |-> status, uri |-> uri, oldUri |-> Some(oldUri), staged |-> Undefined]

\* ParseRecord that takes the new path from the token after the status and
\* the old path from the one after it
ParseRecordSwapped(items, index) ==
  LET rawStatus == items[index + 1]
      status == mapStatus(rawStatus)
      uri3 == toUri(At(items, index + 1))
      oldUri == toUri(At(items, index + 2))
      uri2 == toUri(At(items, index + 1))
  IN  IF ~status.ok
      THEN [threw |-> TRUE, error |-> UnexpectedStatus(status.error), change |-> <<>>,
            index |-> index]
      ELSE IF isSimilarityStatus(rawStatus) THEN
        IF ~uri3.ok \/ ~oldUri.ok
        THEN [threw |-> TRUE, error |-> PathTypeError, change |-> <<>>, index |-> index]
        ELSE [threw |-> FALSE, error |-> NoError,
              change |-> Some(ChangeFrom(status.status, uri3.uri, oldUri.uri)),
              index |-> index + 3]
      ELSE
        IF ~uri2.ok
        THEN [threw |-> TRUE, error |-> PathTypeError, change |-> <<>>, index |-> index]
        ELSE [threw |-> FALSE, error |-> NoError,
              change |-> Some(Change(status.status, uri2.uri)),
              index |-> index + 2]

\* one iteration of the loop of NameStatusParser.parse at `index` (0-based):
\* the record pushed and the next index, or the error thrown
ParseRecord(items, index) ==
  LET rawStatus == items[index + 1]
      status == mapStatus(rawStatus)
      uri3 == toUri(At(items, index + 2))
      oldUri == toUri(At(items, index + 1))
      uri2 == toUri(At(items, index + 1))
  IN  IF ~status.ok
      THEN [threw |-> TRUE, error |-> UnexpectedStatus(status.error), change |-> <<>>,
            index |-> index]
      ELSE IF isSimilarityStatus(rawStatus) THEN
        IF ~uri3.ok \/ ~oldUri.ok
        THEN [threw |-> TRUE, error |-> PathTypeError, change |-> <<>>, index |-> index]
        ELSE [threw |-> FALSE, error |-> NoError,
              change |-> Some(ChangeFrom(status.status, uri3.uri, oldUri.uri)),
              index |-> index + 3]
      ELSE
        IF ~uri2.ok
        THEN [threw |-> TRUE, error |-> PathTypeError, change |-> <<>>, index |-> index]
        ELSE [threw |-> FALSE, error |-> NoError,
              change |-> Some(Change(status.status, uri2.uri)),
              index |-> index + 2]

\* AppFileStatus of dugite-extra, the status of a working-directory change
AppFileStatus == {"AppNew", "AppModified", "AppDeleted", "AppRenamed", "AppConflicted", "AppCopied"}

\* mapFileStatus with a default: a status that is not of the enumeration is
\* taken for Modified
mapFileStatusDefaulting(toMap) ==
  CASE toMap = "AppConflicted" -> [ok |-> TRUE, status |-> "Conflicted", error |-> ""]
    [] toMap = "AppCopied" -> [ok |-> TRUE, status |-> "Copied", error |-> ""]
    [] toMap = "AppDeleted" -> [ok |-> TRUE, status |-> "Deleted", error |-> ""]
    [] toMap = "AppModified" -> [ok |-> TRUE, status |-> "Modified", error |-> ""]
    [] toMap = "AppNew" -> [ok |-> TRUE, status |-> "New", error |-> ""]
    [] toMap = "AppRenamed" -> [ok |-> TRUE, status |-> "Renamed", error |-> ""]
    [] OTHER -> [ok |-> TRUE, status |-> "Modified", error |-> ""]

\* DugiteGit.mapFileStatus(toMap)
mapFileStatus(toMap) ==
  CASE toMap = "AppConflicted" -> [ok |-> TRUE, status |-> "Conflicted", error |-> ""]
    [] toMap = "AppCopied" -> [ok |-> TRUE, status |-> "Copied", error |-> ""]
    [] toMap = "AppDeleted" -> [ok |-> TRUE, status |-> "Deleted", error |-> ""]
    [] toMap = "AppModified" -> [ok |-> TRUE, status |-> "Modified", error |-> ""]
    [] toMap = "AppNew" -> [ok |-> TRUE, status |-> "New", error |-> ""]
    [] toMap = "AppRenamed" -> [ok |-> TRUE, status |-> "Renamed", error |-> ""]
    [] OTHER -> [ok |-> FALSE, status |-> "", error |-> toMap]

\* DugiteGit.getUri(Path.join(repositoryPath, path))
getUri(path) == FileScheme \o UriEncode(PathJoin(RepositoryPath, path))

\* mapFileChange that leaves oldUri out
mapFileChangeWithoutOld(toMap) ==
  LET uri == getUri(toMap.path)
      status == mapFileStatus(toMap.status)
  IN  IF ~status.ok
      THEN [threw |-> TRUE, error |-> UnexpectedStatus(status.error), change |-> <<>>]
      ELSE [threw |-> FALSE, error |-> NoError,
            change |-> Some([status |-> status.status, uri |-> uri, oldUri |-> Undefined,
                             staged |-> Some(toMap.staged)])]

\* DugiteGit.mapFileChange(toMap, repositoryPath): the GitFileChange, or the
\* error of mapFileStatus
mapFileChange(toMap) ==
  LET uri == getUri(toMap.path)
      status == mapFileStatus(toMap.status)
      oldUri == IF toMap.oldPath # Undefined /\ toMap.oldPath[1] # <<>>
                THEN Some(getUri(toMap.oldPath[1]))
                ELSE Undefined
  IN  IF ~status.ok
      THEN [threw |-> TRUE, error |-> UnexpectedStatus(status.error), change |-> <<>>]
      ELSE [threw |-> FALSE, error |-> NoError,
            change |-> Some([status |-> status.status, uri |-> uri, oldUri |-> oldUri,
                             staged |-> Some(toMap.staged)])]

\* the working-directory changes dugite-extra reports: the old path is there
\* for a renamed or copied file and for no other; one status is not of the
\* enumeration
DugiteFileChanges ==
  {[path |-> p, status |-> st, oldPath |-> Undefined, staged |-> sg] :
     p \in {PathFoo}, st \in {"AppNew", "AppModified", "AppDeleted", "AppConflicted", "AppOther"},
     sg \in BOOLEAN}
  \cup
  {[path |-> PathBar2, status |-> st, oldPath |-> Some(PathBar), staged |-> sg] :
     st \in {"AppRenamed", "AppCopied"}, sg \in BOOLEAN}

----------------------------------------------------------------------------
(* NameStatusParser.parse and DugiteGit.mapFileChanges: state and steps. *)

VARIABLES
  op,        \* "diff": NameStatusParser.parse runs; "status": mapFileChanges
  listing,   \* parse: the records the listing was made of, by index in
             \* NameStatusRecords, and the number of tokens cut off its end
  input,     \* parse: the `input` parameter, an array or a string
  items,     \* parse: the tokens
  index,     \* parse: the cursor; mapFileChanges: the files mapped so far
  changes,   \* parse: the records pushed so far
  toMap,     \* mapFileChanges: the files of the working-directory status
  mapped,    \* mapFileChanges: the outcome of mapFileChange for each file
  cpc,       \* where the operation is
  cresult    \* what the operation returned

changeVars == <<op, listing, input, items, index, changes, toMap, mapped, cpc, cresult>>

----------------------------------------------------------------------------
(* CommitDetailsParser and DugiteGit.log: values. *)

\* Largest number of commit chunks in the output of one `git log`.
MaxChunks == 3

\* CommitDetailsParser.ENTRY_DELIMITER, the character \x01
ENTRY_DELIMITER == "\\x01"

\* CommitDetailsParser.COMMIT_CHUNK_DELIMITER, the character \x02
COMMIT_CHUNK_DELIMITER == "\\x02"

\* CommitPlaceholders
HASH == "%H"

SHORT_HASH == "%h"

AUTHOR_EMAIL == "%aE"

AUTHOR_NAME == "%aN"

AUTHOR_DATE == "%ad"

AUTHOR_RELATIVE_DATE == "%ar"

SUBJECT == "%s"

BODY == "%b"

\* the placeholders with the name of the author before the mail
PlaceholdersNameFirst ==
  <<HASH, AUTHOR_NAME, AUTHOR_EMAIL, AUTHOR_DATE, AUTHOR_RELATIVE_DATE, SUBJECT, BODY>>

\* CommitDetailsParser.DEFAULT_PLACEHOLDERS
DEFAULT_PLACEHOLDERS ==
  <<HASH, AUTHOR_EMAIL, AUTHOR_NAME, AUTHOR_DATE, AUTHOR_RELATIVE_DATE, SUBJECT, BODY>>

\* CommitDetailsParser.getFormat(...placeholders), as the sequence of the
\* placeholders of the format string:
\* '%x02' + placeholders.join('%x01') + '%x01'
getFormat(placeholders) ==
  <<"%x02">> \o JsJoin([i \in 1..Len(placeholders) |-> <<placeholders[i]>>], <<"%x01">>)
             \o <<"%x01">>

RECURSIVE ParseFrom(_, _, _)
\* the loop of NameStatusParser.parse from `index` on, run to its end
ParseFrom(tokens, idx, pushed) ==
  IF idx >= Len(tokens)
  THEN [kind |-> "changes", changes |-> pushed, error |-> NoError]
  ELSE LET r == ParseRecord(tokens, idx)
       IN  IF r.threw
           THEN [kind |-> "threw", changes |-> <<>>, error |-> r.error]
           ELSE ParseFrom(tokens, r.index, Append(pushed, r.change[1]))

\* nameStatusParser.parse(repositoryUri, raw) for a string and the default
\* delimiter: the records, or the error thrown
NameStatusParse(raw) ==
  ParseFrom(split([isArray |-> FALSE, items |-> <<>>, text |-> raw], LINE_DELIMITER), 0, <<>>)

\* `rawChanges || ''`
OrEmpty(x) == IF x = Undefined THEN <<>> ELSE x[1]

\* a CommitWithChanges
CommitWithChanges(sha, email, name, timestamp, authorDateRelative, summary, body, fileChanges) ==
  [sha |-> sha,
   author |-> [timestamp |-> timestamp, email |-> email, name |-> name],
   authorDateRelative |-> authorDateRelative,
   summary |-> summary,
   body |-> body,
   fileChanges |-> fileChanges]

\* ParseChunk that rejects a chunk whose time is not a number
ParseChunkNumbered(chunk) ==
  LET parts == JsSplit(Trim(chunk), ENTRY_DELIMITER)
      timestamp == ParseInt(At(parts, 3))
      fileChanges == NameStatusParse(Trim(OrEmpty(At(parts, 7))))
  IN  IF fileChanges.kind = "threw" \/ timestamp.nan
      THEN [threw |-> TRUE, error |-> fileChanges.error, commit |-> <<>>]
      ELSE [threw |-> FALSE, error |-> NoError,
            commit |-> Some(CommitWithChanges(At(parts, 0), At(parts, 1), At(parts, 2), timestamp,
                                              At(parts, 4), At(parts, 5), At(parts, 6),
                                              fileChanges.changes))]

\* the body of the loop of CommitDetailsParser.parse for one chunk: the
\* record pushed, or the error nameStatusParser.parse throws
ParseChunk(chunk) ==
  LET parts == JsSplit(Trim(chunk), ENTRY_DELIMITER)
      sha == At(parts, 0)
      email == At(parts, 1)
      name == At(parts, 2)
      timeAsString == At(parts, 3)
      authorDateRelative == At(parts, 4)
      summary == At(parts, 5)
      body == At(parts, 6)
      rawChanges == At(parts, 7)
      timestamp == ParseInt(timeAsString)
      fileChanges == NameStatusParse(Trim(OrEmpty(rawChanges)))
  IN  IF fileChanges.kind = "threw"
      THEN [threw |-> TRUE, error |-> fileChanges.error, commit |-> <<>>]
      ELSE [threw |-> FALSE, error |-> NoError,
            commit |-> Some(CommitWithChanges(sha, email, name, timestamp, authorDateRelative,
                                              summary, body, fileChanges.changes))]

\* a commit as git has it, with the fields the placeholders stand for (the
\* author date as `--date=unix` prints it) and the text `--name-status -z`
\* prints after the formatted fields
GitCommit(sha, email, name, date, relative, subject, body, nameStatus) ==
  [sha |-> sha, email |-> email, name |-> name, date |-> date, relative |-> relative,
   subject |-> subject, body |-> body, nameStatus |-> nameStatus]

\* the commits of the model: one with a changed file; one with a date that
\* is not a number, an empty subject and body and no changed files; the
\* first one again, as `-m` prints a merge once for each parent; one whose
\* sha starts with a blank; one whose list of changed files has an unknown
\* status
LogCommits ==
  << GitCommit(ShaAbc, <<"j", "@", "x">>, <<"J", "o">>, <<"1", "6">>, <<"2", "d">>,
               <<"f", "i", "x">>, <<"b">>,
               <<"\n", "M", LINE_DELIMITER>> \o PathFoo \o <<LINE_DELIMITER, LINE_DELIMITER>>),
     GitCommit(ShaZeroD, <<"b", "@", "x">>, <<"B", "o", "b">>, <<"x">>, <<>>, <<>>, <<>>, <<>>),
     GitCommit(ShaAbc, <<"j", "@", "x">>, <<"J", "o">>, <<"1", "6">>, <<"2", "d">>,
               <<"f", "i", "x">>, <<"b">>,
               <<"\n", "D", LINE_DELIMITER>> \o PathBar \o <<LINE_DELIMITER, LINE_DELIMITER>>),
     GitCommit(<<" ", "a", "b">>, <<"e">>, <<"n">>, <<"7">>, <<"r">>, <<"s">>, <<" ">>, <<>>),
     GitCommit(<<"d", "1">>, <<"e">>, <<"n">>, <<"7">>, <<"r">>, <<"s">>, <<>>,
               <<"Z", LINE_DELIMITER>> \o PathFoo \o <<LINE_DELIMITER>>) >>

\* the abbreviated sha %h stands for
ShortHash(sha) == SubSeq(sha, 1, IF Len(sha) < 7 THEN Len(sha) ELSE 7)

\* what git prints for one placeholder of a format
Expand(placeholder, c) ==
  CASE placeholder = "%x01" -> <<ENTRY_DELIMITER>>
    [] placeholder = "%x02" -> <<COMMIT_CHUNK_DELIMITER>>
    [] placeholder = HASH -> c.sha
    [] placeholder = SHORT_HASH -> ShortHash(c.sha)
    [] placeholder = AUTHOR_EMAIL -> c.email
    [] placeholder = AUTHOR_NAME -> c.name
    [] placeholder = AUTHOR_DATE -> c.date
    [] placeholder = AUTHOR_RELATIVE_DATE -> c.relative
    [] placeholder = SUBJECT -> c.subject
    [] placeholder = BODY -> c.body

\* what `git log --name-status --format=<format> -z` prints for one commit
GitShow(c, format) ==
  Concat([i \in 1..Len(format) |-> Expand(format[i], c)]) \o c.nameStatus

\* a chunk that holds a blank and nothing else
BlankChunk == <<COMMIT_CHUNK_DELIMITER, " ">>

\* the output for a sequence of commits given by their index in LogCommits;
\* the index after the last commit stands for the blank chunk
LogOutput(cs, format) ==
  Concat([i \in 1..Len(cs) |->
            IF cs[i] <= Len(LogCommits) THEN GitShow(LogCommits[cs[i]], format)
            ELSE BlankChunk])

\* the placeholders DugiteGit.log asks for
LogPlaceholders(short) ==
  IF short THEN <<SHORT_HASH>> \o Slice1(DEFAULT_PLACEHOLDERS) ELSE DEFAULT_PLACEHOLDERS

----------------------------------------------------------------------------
(* CommitDetailsParser.parse and DugiteGit.log: state and steps. *)

VARIABLES
  logCaller,   \* "log": DugiteGit.log; "direct": CommitDetailsParser.parse
  shortSha,    \* log: options.shortSha
  logCommits,  \* the commits of the output, by index in LogCommits
  logStdout,   \* the output of `git log`
  logInput,    \* parse: the `input` parameter, an array or a string
  chunks,      \* parse: the chunks
  chunkIdx,    \* parse: the chunks the loop is through with
  logChanges,  \* parse: `changes`, the records pushed so far
  lpc,         \* where the operation is
  logResult    \* what the operation returned

logVars == <<logCaller, shortSha, logCommits, logStdout, logInput, chunks, chunkIdx,
             logChanges, lpc, logResult>>

NoLog == [kind |-> "none", commits |-> <<>>, error |-> NoError]

\* no log runs
IdleLog ==
  /\ logCaller = "none"
  /\ shortSha = FALSE
  /\ logCommits = <<>>
  /\ logStdout = <<>>
  /\ logInput = [isArray |-> TRUE, items |-> <<>>, text |-> <<>>]
  /\ chunks = <<>>
  /\ chunkIdx = 0
  /\ logChanges = <<>>
  /\ lpc = "idle"
  /\ logResult = NoLog

\* DugiteGit.log runs on a repository of at most MaxChunks commits, or
\* CommitDetailsParser.parse is called with the output as one string
LogStart ==
  \E cs \in SeqsUpTo(1..(Len(LogCommits) + 1), MaxChunks) :
    \E who \in {"log", "direct"} :
      \E short \in BOOLEAN :
        /\ (who = "direct" => ~short)
        /\ logCaller = who
        /\ shortSha = short
        /\ logCommits = cs
        /\ logStdout = LogOutput(cs, getFormat(LogPlaceholders(short)))
        /\ logInput = IF who = "direct"
                      THEN [isArray |-> FALSE, items |-> <<>>, text |-> logStdout]
                      ELSE [isArray |-> TRUE, items |-> <<>>, text |-> <<>>]
        /\ chunks = <<>>
        /\ chunkIdx = 0
        /\ logChanges = <<>>
        /\ lpc = IF who = "log" THEN "log" ELSE "parse"
        /\ logResult = NoLog

\* DugiteGit.log: the output is trimmed, split at the chunk delimiter and
\* handed to the parser without its empty items
DugiteLog ==
  /\ lpc = "log"
  /\ logInput' = [isArray |-> TRUE,
                  items |-> SelectSeq(JsSplit(Trim(logStdout), COMMIT_CHUNK_DELIMITER), KeepItem),
                  text |-> <<>>]
  /\ lpc' = "parse"
  /\ UNCHANGED <<logCaller, shortSha, logCommits, logStdout, chunks, chunkIdx, logChanges,
                 logResult>>

\* `const chunks = this.split(input, delimiter)`
CdSplit ==
  /\ lpc = "parse"
  /\ chunks' = split(logInput, COMMIT_CHUNK_DELIMITER)
  /\ chunkIdx' = 0
  /\ logChanges' = <<>>
  /\ lpc' = "chunks"
  /\ UNCHANGED <<logCaller, shortSha, logCommits, logStdout, logInput, logResult>>

\* one iteration of the loop that pushes a record
CdChunk ==
  /\ lpc = "chunks"
  /\ chunkIdx < Len(chunks)
  /\ ~ParseChunk(chunks[chunkIdx + 1]).threw
  /\ logChanges' = Append(logChanges, ParseChunk(chunks[chunkIdx + 1]).commit[1])
  /\ chunkIdx' = chunkIdx + 1
  /\ UNCHANGED <<logCaller, shortSha, logCommits, logStdout, logInput, chunks, lpc, logResult>>

\* one iteration of the loop in which nameStatusParser.parse throws
CdThrow ==
  /\ lpc = "chunks"
  /\ chunkIdx < Len(chunks)
  /\ ParseChunk(chunks[chunkIdx + 1]).threw
  /\ lpc' = "threw"
  /\ logResult' = [kind |-> "threw", commits |-> <<>>,
                   error |-> ParseChunk(chunks[chunkIdx + 1]).error]
  /\ UNCHANGED <<logCaller, shortSha, logCommits, logStdout, logInput, chunks, chunkIdx,
                 logChanges>>

\* `return changes`
CdReturn ==
  /\ lpc = "chunks"
  /\ chunkIdx = Len(chunks)
  /\ lpc' = "done"
  /\ logResult' = [kind |-> "commits", commits |-> logChanges, error |-> NoError]
  /\ UNCHANGED <<logCaller, shortSha, logCommits, logStdout, logInput, chunks, chunkIdx,
                 logChanges>>

----------------------------------------------------------------------------
(* Two GitBlameParser.parse calls on one parser instance.  JavaScript runs *)
(* a call without interruption up to its next `await`; the calls take      *)
(* turns at the awaits of commitBody(sha) only.                            *)

\* Largest number of hunks in the stream of each of the two calls.
MaxCallHunks == 2

\* the hunks the streams of the two calls are made of
CallHunks == {1, 2, 3, 4}

\* the two invocations
Calls == {1, 2}

VARIABLES
  calls   \* for each invocation its parameters, its local variables
          \* (parsedEntries, the index of the loop, commits, lines), the
          \* shas it called commitBody with, where it is and its result

parVars == <<calls>>

\* an invocation that has not been made, for a stream given by its hunks
NewCall(hs) ==
  [hunks |-> hs, gitBlameOutput |-> StreamOf(hs), pc |-> "ready", parsedEntries |-> <<>>,
   entryIdx |-> 0, commits |-> <<>>, lines |-> <<>>, bodyCalls |-> <<>>, result |-> NoResult]

\* no parse call is made through this pair
IdlePar == calls = [c \in Calls |-> [NewCall(<<>>) EXCEPT !.pc = "idle"]]

\* a map shared by the invocations: the commits of both
CommitsOfInstance(cs, c) == cs[1].commits \o cs[2].commits

\* `const commits = new Map<string, Commit>()` of createFileBlame: the map
\* invocation c looks its shas up in is its own
CommitsOfCall(cs, c) == cs[c].commits

RECURSIVE Advance(_, _, _, _)
\* the loop of createFileBlame from entry i on, up to the next entry whose
\* sha is not in the map (commitBody is awaited there) or to the end
Advance(entries, i, ls, known) ==
  IF i > Len(entries) THEN [entryIdx |-> i, lines |-> ls, awaiting |-> FALSE]
  ELSE IF HasCommit(known, entries[i].sha[1])
       THEN Advance(entries, i + 1, WriteLines(ls, entries[i]), known)
       ELSE [entryIdx |-> i, lines |-> ls, awaiting |-> TRUE]

\* invocation c runs on from entry i to its next await or to its return
RunOn(cs, c, i) ==
  LET a == Advance(cs[c].parsedEntries, i, cs[c].lines, CommitsOfCall(cs, c))
  IN  IF a.awaiting
      THEN [cs EXCEPT ![c].pc = "awaitBody",
                      ![c].entryIdx = a.entryIdx,
                      ![c].lines = a.lines,
                      ![c].bodyCalls = Append(@, cs[c].parsedEntries[a.entryIdx].sha[1])]
      ELSE [cs EXCEPT ![c].pc = "done",
                      ![c].entryIdx = a.entryIdx,
                      ![c].lines = a.lines,
                      ![c].result = FileBlame(FileUriOfBlame, cs[c].commits, a.lines)]

\* parse is invoked: it returns undefined for an empty output, and otherwise
\* parses the entries and starts createFileBlame
ParseInvoked(c) ==
  /\ calls[c].pc = "ready"
  /\ calls' = IF calls[c].gitBlameOutput = <<>>
              THEN [calls EXCEPT ![c].pc = "done", ![c].result = AbsentResult]
              ELSE RunOn([calls EXCEPT ![c].parsedEntries = parseEntries(calls[c].gitBlameOutput)],
                         c, 1)

\* the body invocation c awaits arrives: the commit is put in the map, the
\* lines of the entry are written and the loop goes on
ParseResumed(c) ==
  /\ calls[c].pc = "awaitBody"
  /\ LET entry == calls[c].parsedEntries[calls[c].entryIdx]
     IN  calls' = RunOn([calls EXCEPT
                           ![c].commits = Append(@, CommitOf(entry, BodyFor("direct", entry.sha[1]))),
                           ![c].lines = WriteLines(@, entry)],
                        c, calls[c].entryIdx + 1)

\* the promise invocation c awaits is rejected
ParseRejected(c) ==
  /\ calls[c].pc = "awaitBody"
  /\ calls' = [calls EXCEPT ![c].pc = "rejected", ![c].result = RejectedResult]

\* the two invocations, each on a stream of at most MaxCallHunks hunks
TwoCalls ==
  \E hs \in [Calls -> SeqsUpTo(CallHunks, MaxCallHunks)] :
    calls = [c \in Calls |-> NewCall(hs[c])]

----------------------------------------------------------------------------
(* StreamCommunicationProvider: the framing of the messages of a debug
   adapter.  A Buffer is a sequence of bytes, each a one-character string
   (the messages are ASCII). *)

\* the most frames a stream is made of
MaxFrames == 2

\* StreamCommunicationProvider.TWO_CRLF
TWO_CRLF == <<"\r", "\n", "\r", "\n">>

\* StreamCommunicationProvider.CONTENT_LENGTH
CONTENT_LENGTH == <<"C", "o", "n", "t", "e", "n", "t", "-", "L", "e", "n", "g", "t", "h">>

\* the decimal digit of a number below ten
DigitChar(d) ==
  CASE d = 0 -> "0" [] d = 1 -> "1" [] d = 2 -> "2" [] d = 3 -> "3" [] d = 4 -> "4"
    [] d = 5 -> "5" [] d = 6 -> "6" [] d = 7 -> "7" [] d = 8 -> "8" [] d = 9 -> "9"

RECURSIVE NumberToString(_)
\* a natural number in a template literal: its decimal digits
NumberToString(i) ==
  IF i < 10 THEN <<DigitChar(i)>> ELSE NumberToString(i \div 10) \o <<DigitChar(i % 10)>>

\* what send(message) writes to the adapter:
\* `Content-Length: ${Buffer.byteLength(message, 'utf8')}\r\n\r\n${message}`
send(message) ==
  CONTENT_LENGTH \o <<":", " ">> \o NumberToString(Len(message)) \o TWO_CRLF \o message

\* Buffer.indexOf(value): the position of the first occurrence, 0-based; -1
\* when there is none
BufferIndexOf(buf, value) ==
  LET hits == {i \in 0..(Len(buf) - Len(value)) : SubSeq(buf, i + 1, i + Len(value)) = value}
  IN  IF hits = {} THEN -1 ELSE CHOOSE i \in hits : \A j \in hits : i <= j

\* Buffer.slice(start)
BufferSlice(buf, start) == SubSeq(buf, start + 1, Len(buf))

RECURSIVE SplitCrlf(_)
\* header.split('\r\n')
SplitCrlf(header) ==
  LET i == BufferIndexOf(header, <<"\r", "\n">>)
  IN  IF i = -1 THEN <<header>>
      ELSE <<SubSeq(header, 1, i)>> \o SplitCrlf(BufferSlice(header, i + 2))

RECURSIVE SplitColonSpaces(_)
\* line.split(/: +/): the pieces between the runs of a colon and one or
\* more spaces
SplitColonSpaces(line) ==
  LET hits == {i \in 1..(Len(line) - 1) : line[i] = ":" /\ line[i + 1] = " "}
  IN  IF hits = {} THEN <<line>>
      ELSE LET i == CHOOSE h \in hits : \A j \in hits : h <= j
               last == CHOOSE j \in (i + 1)..Len(line) :
                         /\ \A k \in (i + 1)..j : line[k] = " "
                         /\ j = Len(line) \/ line[j + 1] # " "
           IN  <<SubSeq(line, 1, i - 1)>> \o SplitColonSpaces(BufferSlice(line, last))

\* +x, the conversion of an optional string to a number: NaN for
\* undefined, 0 for white space only, the value of an optionally signed run
\* of decimal digits, NaN for any other text met here
ToNumber(x) ==
  IF x = Undefined THEN NaN
  ELSE LET t == Trim(x[1])
           signed == t # <<>> /\ t[1] \in {"+", "-"}
           d == IF signed THEN Tail(t) ELSE t
       IN  IF t = <<>> THEN Num(0)
           ELSE IF d = <<>> \/ \E i \in 1..Len(d) : d[i] \notin Digits THEN NaN
           ELSE IF signed /\ t[1] = "-" THEN Num(0 - DigitsValue(d, 1, 0))
           ELSE Num(DigitsValue(d, 1, 0))

RECURSIVE HeaderContentLength(_, _)
\* contentLength after the loop over the lines of a header: that of the
\* last line whose first piece is Content-Length
HeaderContentLength(headerLines, length) ==
  IF headerLines = <<>> THEN length
  ELSE LET pair == SplitColonSpaces(headerLines[1])
       IN  HeaderContentLength(Tail(headerLines),
             IF pair[1] = CONTENT_LENGTH THEN ToNumber(At(pair, 1)) ELSE length)

\* the provider after the loop is left: nothing more to do with the buffer
Break(p) == [buffer |-> p.buffer, contentLength |-> p.contentLength, fired |-> p.fired,
             again |-> FALSE]

\* handleDataIteration whose loop is left once a message was fired
handleDataIterationBreaking(p) ==
  IF ~p.contentLength.nan /\ p.contentLength.n >= 0
  THEN IF Len(p.buffer) >= p.contentLength.n
       THEN LET message == SubSeq(p.buffer, 1, p.contentLength.n)
            IN  [buffer |-> BufferSlice(p.buffer, p.contentLength.n),
                 contentLength |-> Num(-1),
                 fired |-> IF Len(message) > 0 THEN Append(p.fired, message) ELSE p.fired,
                 again |-> FALSE]
       ELSE Break(p)
  ELSE LET at == BufferIndexOf(p.buffer, CONTENT_LENGTH)
           buf == IF at > 0 THEN BufferSlice(p.buffer, at) ELSE p.buffer
           idx == BufferIndexOf(buf, TWO_CRLF)
       IN  IF idx # -1
           THEN [buffer |-> BufferSlice(buf, idx + Len(TWO_CRLF)),
                 contentLength |->
                   HeaderContentLength(SplitCrlf(SubSeq(buf, 1, idx)), p.contentLength),
                 fired |-> p.fired,
                 again |-> TRUE]
           ELSE Break([p EXCEPT !.buffer = buf])

\* one iteration of the `while (true)` of handleData on the provider p
\* (buffer, contentLength, the messages fired so far): with a content
\* length, the message is cut off the buffer once the buffer has that many
\* bytes, and fired unless it is empty; without one, what precedes
\* Content-Length is dropped (and logged) and a header that is complete is
\* read and cut off.  `again` tells whether the loop continues.
handleDataIteration(p) ==
  IF ~p.contentLength.nan /\ p.contentLength.n >= 0
  THEN IF Len(p.buffer) >= p.contentLength.n
       THEN LET message == SubSeq(p.buffer, 1, p.contentLength.n)
            IN  [buffer |-> BufferSlice(p.buffer, p.contentLength.n),
                 contentLength |-> Num(-1),
                 fired |-> IF Len(message) > 0 THEN Append(p.fired, message) ELSE p.fired,
                 again |-> TRUE]
       ELSE Break(p)
  ELSE LET at == BufferIndexOf(p.buffer, CONTENT_LENGTH)
           buf == IF at > 0 THEN BufferSlice(p.buffer, at) ELSE p.buffer
           idx == BufferIndexOf(buf, TWO_CRLF)
       IN  IF idx # -1
           THEN [buffer |-> BufferSlice(buf, idx + Len(TWO_CRLF)),
                 contentLength |->
                   HeaderContentLength(SplitCrlf(SubSeq(buf, 1, idx)), p.contentLength),
                 fired |-> p.fired,
                 again |-> TRUE]
           ELSE Break([p EXCEPT !.buffer = buf])

RECURSIVE handleDataLoop(_)
\* the `while (true)` of handleData, until its break
handleDataLoop(p) ==
  LET next == handleDataIteration(p)
  IN  IF next.again THEN handleDataLoop(next) ELSE next

\* the messages an adapter sends: an empty one, a short one, one that is
\* the header separator, one that reads as a frame
AdapterMessages ==
  <<<<>>,
    <<"a", "b">>,
    TWO_CRLF,
    <<"C", "o", "n", "t", "e", "n", "t", "-", "L", "e", "n", "g", "t", "h", ":", " ", "0", "\r", "\n", "\r", "\n">>>>

VARIABLES
  framed,         \* the messages of the stream, as positions of AdapterMessages
  fromAdapter,    \* the bytes of the stream: the frames of the messages
  delivered,      \* the number of bytes of the stream given to handleData
  buffer,         \* this.buffer
  contentLength,  \* this.contentLength
  fired           \* the messages fired by messageReceivedEmitter, in order

streamVars == <<framed, fromAdapter, delivered, buffer, contentLength, fired>>

\* the bytes of a stream of frames
FramesOf(ms) == Concat([i \in 1..Len(ms) |-> send(AdapterMessages[ms[i]])])

\* the provider as constructed, for a stream of frames
StreamStart(ms) ==
  /\ framed = ms
  /\ fromAdapter = FramesOf(ms)
  /\ delivered = 0
  /\ buffer = <<>>
  /\ contentLength = Num(-1)
  /\ fired = <<>>

\* no stream
IdleStream == StreamStart(<<>>)

\* a stream of at most MaxFrames frames
StreamOfFrames == \E ms \in SeqsUpTo(1..Len(AdapterMessages), MaxFrames) : StreamStart(ms)

\* a 'data' event with the next bytes of the stream, however many:
\* handleData appends them to the buffer and runs its loop
HandleData ==
  \E size \in 1..(Len(fromAdapter) - delivered) :
    LET data == SubSeq(fromAdapter, delivered + 1, delivered + size)
        after == handleDataLoop([buffer |-> buffer \o data, contentLength |-> contentLength,
                                 fired |-> fired])
    IN  /\ buffer' = after.buffer
        /\ contentLength' = after.contentLength
        /\ fired' = after.fired
        /\ delivered' = delivered + size
        /\ UNCHANGED <<framed, fromAdapter>>

vars == <<blameVars, changeVars, logVars, parVars, streamVars>>

NoChanges == [kind |-> "none", changes |-> <<>>, error |-> NoError]

RECURSIVE Flatten(_)
\* the tokens of a sequence of records
Flatten(recs) == IF recs = <<>> THEN <<>> ELSE recs[1] \o Flatten(Tail(recs))

\* the tokens of the records rs without the last `drop` tokens
TokensOf(rs, drop) ==
  LET all == Flatten([i \in 1..Len(rs) |-> NameStatusRecords[rs[i]]])
  IN  SubSeq(all, 1, Len(all) - drop)

\* the `input` of parse for a token sequence: the array itself, the tokens
\* joined by the delimiter, or each token followed by the delimiter as
\* `git diff -z` prints them
InputOf(tokens, form) ==
  [isArray |-> form = "array",
   items |-> IF form = "array" THEN tokens ELSE <<>>,
   text |-> CASE form = "array" -> <<>>
              [] form = "joined" -> JsJoin(tokens, <<LINE_DELIMITER>>)
              [] form = "terminated" ->
                   Concat([i \in 1..Len(tokens) |-> tokens[i] \o <<LINE_DELIMITER>>])]

\* no operation on file changes runs
IdleChanges ==
  /\ op = "none"
  /\ listing = [records |-> <<>>, drop |-> 0]
  /\ input = InputOf(<<>>, "array")
  /\ items = <<>>
  /\ index = 0
  /\ changes = <<>>
  /\ toMap = <<>>
  /\ mapped = <<>>
  /\ cpc = "idle"
  /\ cresult = NoChanges

\* no blame runs
IdleBlame ==
  /\ hunks = <<>>
  /\ stdout = <<>>
  /\ caller = "none"
  /\ fileIsNew = FALSE
  /\ gitBlameOutput = <<>>
  /\ pc = "idle"
  /\ pending = <<>>
  /\ current = Undefined
  /\ parsedEntries = <<>>
  /\ entryIdx = 0
  /\ commits = <<>>
  /\ lines = <<>>
  /\ bodyCalls = <<>>
  /\ revListExecs = <<>>
  /\ result = NoResult

\* NameStatusParser.parse is called on a listing of at most MaxRecords
\* records, whole or without its last one or two tokens
InitDiff ==
  \E rs \in SeqsUpTo(1..Len(NameStatusRecords), MaxRecords) :
    \E drop \in 0..2 :
      \E form \in {"array", "joined", "terminated"} :
        /\ drop <= Len(TokensOf(rs, 0))
        /\ op = "diff"
        /\ listing = [records |-> rs, drop |-> drop]
        /\ input = InputOf(TokensOf(rs, drop), form)
        /\ items = <<>>
        /\ index = 0
        /\ changes = <<>>
        /\ toMap = <<>>
        /\ mapped = <<>>
        /\ cpc = "parse"
        /\ cresult = NoChanges

\* mapFileChanges is called on the files of a working-directory status
InitStatus ==
  \E files \in SeqsUpTo(DugiteFileChanges, MaxChanges) :
    /\ op = "status"
    /\ listing = [records |-> <<>>, drop |-> 0]
    /\ input = InputOf(<<>>, "array")
    /\ items = <<>>
    /\ index = 0
    /\ changes = <<>>
    /\ toMap = files
    /\ mapped = <<>>
    /\ cpc = "map"
    /\ cresult = NoChanges

InitChanges == (InitDiff \/ InitStatus) /\ IdleBlame /\ IdleLog /\ IdlePar /\ IdleStream

\* `const items = this.split(input, delimiter)`
NsSplit ==
  /\ cpc = "parse"
  /\ items' = split(input, LINE_DELIMITER)
  /\ index' = 0
  /\ changes' = <<>>
  /\ cpc' = "loop"
  /\ UNCHANGED <<op, listing, input, toMap, mapped, cresult>>

\* one iteration of the loop that pushes a record
NsRecord ==
  /\ cpc = "loop"
  /\ index < Len(items)
  /\ ~ParseRecord(items, index).threw
  /\ changes' = Append(changes, ParseRecord(items, index).change[1])
  /\ index' = ParseRecord(items, index).index
  /\ UNCHANGED <<op, listing, input, items, toMap, mapped, cpc, cresult>>

\* one iteration of the loop in which mapStatus or toUri throws
NsThrow ==
  /\ cpc = "loop"
  /\ index < Len(items)
  /\ ParseRecord(items, index).threw
  /\ cpc' = "threw"
  /\ cresult' = [kind |-> "threw", changes |-> <<>>, error |-> ParseRecord(items, index).error]
  /\ UNCHANGED <<op, listing, input, items, index, changes, toMap, mapped>>

\* `return changes`
NsReturn ==
  /\ cpc = "loop"
  /\ index >= Len(items)
  /\ cpc' = "done"
  /\ cresult' = [kind |-> "changes", changes |-> changes, error |-> NoError]
  /\ UNCHANGED <<op, listing, input, items, index, changes, toMap, mapped>>

\* mapFileChanges calls mapFileChange for the next file
MapChange ==
  /\ cpc = "map"
  /\ index < Len(toMap)
  /\ mapped' = Append(mapped, mapFileChange(toMap[index + 1]))
  /\ index' = index + 1
  /\ UNCHANGED <<op, listing, input, items, changes, toMap, cpc, cresult>>

\* Promise.all resolves: every mapFileChange returned a record
MapResolved ==
  /\ cpc = "map"
  /\ index = Len(toMap)
  /\ \A i \in 1..Len(mapped) : ~mapped[i].threw
  /\ cpc' = "done"
  /\ cresult' = [kind |-> "changes",
                 changes |-> [i \in 1..Len(mapped) |-> mapped[i].change[1]],
                 error |-> NoError]
  /\ UNCHANGED <<op, listing, input, items, index, changes, toMap, mapped>>

\* Promise.all rejects with the error of the first mapFileChange that threw
MapRejected ==
  /\ cpc = "map"
  /\ index = Len(toMap)
  /\ \E i \in 1..Len(mapped) : mapped[i].threw
  /\ LET first == CHOOSE i \in 1..Len(mapped) :
                    mapped[i].threw /\ \A j \in 1..(i - 1) : ~mapped[j].threw
     IN  cresult' = [kind |-> "threw", changes |-> <<>>, error |-> mapped[first].error]
  /\ cpc' = "threw"
  /\ UNCHANGED <<op, listing, input, items, index, changes, toMap, mapped>>

NextChanges ==
  \/ (NsSplit /\ UNCHANGED <<blameVars, logVars, parVars, streamVars>>)
  \/ (NsRecord /\ UNCHANGED <<blameVars, logVars, parVars, streamVars>>)
  \/ (NsThrow /\ UNCHANGED <<blameVars, logVars, parVars, streamVars>>)
  \/ (NsReturn /\ UNCHANGED <<blameVars, logVars, parVars, streamVars>>)
  \/ (MapChange /\ UNCHANGED <<blameVars, logVars, parVars, streamVars>>)
  \/ (MapResolved /\ UNCHANGED <<blameVars, logVars, parVars, streamVars>>)
  \/ (MapRejected /\ UNCHANGED <<blameVars, logVars, parVars, streamVars>>)

SpecChanges == InitChanges /\ [][NextChanges]_vars

NextBlame ==
  \/ (DugiteBlameNew /\ UNCHANGED <<changeVars, logVars, parVars, streamVars>>)
  \/ (DugiteBlameExec /\ UNCHANGED <<changeVars, logVars, parVars, streamVars>>)
  \/ (ParseEmpty /\ UNCHANGED <<changeVars, logVars, parVars, streamVars>>)
  \/ (ParseStart /\ UNCHANGED <<changeVars, logVars, parVars, streamVars>>)
  \/ (PumpLine /\ UNCHANGED <<changeVars, logVars, parVars, streamVars>>)
  \/ (ParseEntriesReturn /\ UNCHANGED <<changeVars, logVars, parVars, streamVars>>)
  \/ (EntryNewSha /\ UNCHANGED <<changeVars, logVars, parVars, streamVars>>)
  \/ (BodyResolved /\ UNCHANGED <<changeVars, logVars, parVars, streamVars>>)
  \/ (BodyRejected /\ UNCHANGED <<changeVars, logVars, parVars, streamVars>>)
  \/ (EntryKnownSha /\ UNCHANGED <<changeVars, logVars, parVars, streamVars>>)
  \/ (CreateFileBlameReturn /\ UNCHANGED <<changeVars, logVars, parVars, streamVars>>)

InitBlame == InitStreams /\ IdleChanges /\ IdleLog /\ IdlePar /\ IdleStream

SpecBlame == InitBlame /\ [][NextBlame]_vars

NextLog ==
  \/ (DugiteLog /\ UNCHANGED <<blameVars, changeVars, parVars, streamVars>>)
  \/ (CdSplit /\ UNCHANGED <<blameVars, changeVars, parVars, streamVars>>)
  \/ (CdChunk /\ UNCHANGED <<blameVars, changeVars, parVars, streamVars>>)
  \/ (CdThrow /\ UNCHANGED <<blameVars, changeVars, parVars, streamVars>>)
  \/ (CdReturn /\ UNCHANGED <<blameVars, changeVars, parVars, streamVars>>)

InitLog == LogStart /\ IdleChanges /\ IdleBlame /\ IdlePar /\ IdleStream

SpecLog == InitLog /\ [][NextLog]_vars

NextTwoParses ==
  \/ \E c \in Calls : (ParseInvoked(c) /\ UNCHANGED <<blameVars, changeVars, logVars, streamVars>>)
  \/ \E c \in Calls : (ParseResumed(c) /\ UNCHANGED <<blameVars, changeVars, logVars, streamVars>>)
  \/ \E c \in Calls : (ParseRejected(c) /\ UNCHANGED <<blameVars, changeVars, logVars, streamVars>>)

InitTwoParses == TwoCalls /\ IdleBlame /\ IdleChanges /\ IdleLog /\ IdleStream

SpecTwoParses == InitTwoParses /\ [][NextTwoParses]_vars

NextStream ==
  \/ (HandleData /\ UNCHANGED <<blameVars, changeVars, logVars, parVars>>)

InitStream == StreamOfFrames /\ IdleBlame /\ IdleChanges /\ IdleLog /\ IdlePar

SpecStream == InitStream /\ [][NextStream]_vars

----------------------------------------------------------------------------
(* Properties of GitBlameParser. *)

\* the stream arrived whole
Whole == stdout = StreamOf(hunks)

\* GitBlameParser.parse returned a FileBlame
Returned == pc = "done" /\ result.kind = "blame"

\* the shas of a sequence of entries or commits
ShasOf(es) == {es[i].sha : i \in 1..Len(es)}

\* the elements of a sequence
Range(seq) == {seq[i] : i \in 1..Len(seq)}

\* C1, as claimed: parse never calls the caller's commitBody with a sha that
\* starts with '0000000', and the commit of such a sha has an empty body.
C1_ParseNeverCallsForUncommitted ==
  /\ \A i \in 1..Len(bodyCalls) : ~isUncommittedSha(Some(bodyCalls[i]))
  /\ \A i \in 1..Len(commits) :
       isUncommittedSha(Some(commits[i].sha)) => commits[i].body = <<>>

\* C1, amended: parse calls commitBody for every distinct sha, the
\* uncommitted one included; the commitBodyReader of DugiteGit.blame never
\* runs rev-list for an uncommitted sha and resolves to the empty body, so
\* that through DugiteGit.blame the uncommitted commit has an empty body.
C1_ReaderSkipsUncommitted ==
  /\ Returned => \A i \in 1..Len(parsedEntries) : parsedEntries[i].sha[1] \in Range(bodyCalls)
  /\ caller = "blame" =>
       /\ \A i \in 1..Len(revListExecs) : ~isUncommittedSha(Some(revListExecs[i]))
       /\ \A i \in 1..Len(commits) :
            isUncommittedSha(Some(commits[i].sha)) => commits[i].body = <<>>
       /\ \A i \in 1..Len(commits) :
            ~isUncommittedSha(Some(commits[i].sha)) => commits[i].sha \in Range(revListExecs)

\* DugiteGit.blame returned a blame with an uncommitted and a committed
\* commit
C1_Witness ==
  /\ Returned
  /\ caller = "blame"
  /\ \E i \in 1..Len(result.commits) : isUncommittedSha(Some(result.commits[i].sha))
  /\ ShaUncommitted \in Range(bodyCalls)
  /\ revListExecs # <<>>

\* C2: within one parse, commitBody is never called twice with the same sha,
\* only with shas of flushed entries, and, once the parse has returned,
\* exactly once with each sha of a flushed entry, however many entries
\* carry it and in whatever order.
C2_OneCallPerSha ==
  /\ \A i, j \in 1..Len(bodyCalls) : bodyCalls[i] = bodyCalls[j] => i = j
  /\ \A i \in 1..Len(bodyCalls) : Some(bodyCalls[i]) \in ShasOf(parsedEntries)
  /\ Returned => \A i \in 1..Len(parsedEntries) :
       Cardinality({j \in 1..Len(bodyCalls) : bodyCalls[j] = parsedEntries[i].sha[1]}) = 1

\* a parse returned for three entries, the first and the third of one sha
\* and the second of another
C2_Witness ==
  /\ Returned
  /\ Len(parsedEntries) = 3
  /\ parsedEntries[1].sha = parsedEntries[3].sha
  /\ parsedEntries[1].sha # parsedEntries[2].sha

\* the sha of the header of each hunk of BlameHunks (none for the blank line)
HunkSha ==
  <<ShaAbc, ShaAbc, ShaZeroD, ShaUncommitted, ShaUncommitted, ShaAbc, ShaZeroD, ShaZeroD, <<>>,
    ShaAbc>>

\* the three numbers that follow the sha in the header of the hunks 1 to 6
HeaderNumbers == <<<<1, 10, 1>>, <<5, 1, 2>>, <<2, 3, 2>>, <<4, 2, 2>>, <<9, 12, 1>>, <<1, 1, 1>>>>

\* no hunk of the stream lacks its filename line
NoUnterminated == \A i \in 1..Len(hunks) : hunks[i] # 8

\* the hunk is not the blank line
IsRecordHunk(h) == h # 9

\* the hunks of the stream that are records
RecordHunks == SelectSeq(hunks, IsRecordHunk)

\* parseEntries has returned
ParsedAll == pc \in {"createFileBlame", "awaitBody", "rejected"} \/ Returned

\* the keys first - 1 .. first - 1 + count - 1 of the returned line table
\* all hold a line of the sha
Attributed(first, count, sha) ==
  \A k \in (first - 1)..(first - 1 + count - 1) :
    /\ Num(k) \in DOMAIN result.lines
    /\ result.lines[Num(k)] = [sha |-> sha, line |-> Num(k)]

\* C3, as claimed: the number after the sha is the starting line S and the
\* next one the line count N, so that lines[S-1 .. S-1+N-1] are attributed
\* to the sha (lines[0..9] for `abc123 1 10 1`).
C3_SecondAndThirdToken ==
  (Returned /\ Whole /\ hunks # <<>> /\ NoUnterminated /\ hunks[Len(hunks)] \in 1..6) =>
    LET h == hunks[Len(hunks)]
    IN  Attributed(HeaderNumbers[h][1], HeaderNumbers[h][2], HunkSha[h])

\* C3, amended: the header is the sha, the line in the original file, the
\* starting line S in the blamed file and the line count N (parts[2] and
\* parts[3]); lines[S-1 .. S-1+N-1] are attributed to the sha of the hunk
\* written last, and to nothing else when it is the only hunk (lines[9]
\* alone for `abc123 1 10 1`).
C3_ThirdAndFourthToken ==
  (Returned /\ Whole /\ hunks # <<>> /\ NoUnterminated /\ hunks[Len(hunks)] \in 1..6) =>
    LET h == hunks[Len(hunks)]
        S == HeaderNumbers[h][2]
        N == HeaderNumbers[h][3]
    IN  /\ Attributed(S, N, HunkSha[h])
        /\ Len(hunks) = 1 => DOMAIN result.lines = {Num(k) : k \in (S - 1)..(S - 1 + N - 1)}

\* the example stream was blamed: only lines[9] is attributed, to abc123
C3_Witness ==
  /\ Returned
  /\ Whole
  /\ hunks = <<1>>
  /\ DOMAIN result.lines = {Num(9)}
  /\ result.lines[Num(9)].sha = ShaAbc

\* the name, mail, time and summary the lines of hunk 1 and of hunk 3 stand
\* for: `author Jane`, `author-mail <jane@x.com>`, `author-time 16`,
\* `summary "fix bug"`; `author Bob Lee`, `author-mail b@x`, `author-time 7`,
\* `summary ""q""`
ExpectedAuthor(h) ==
  IF h = 1
  THEN [name |-> <<"J", "a", "n", "e">>,
        email |-> <<"j", "a", "n", "e", "@", "x", ".", "c", "o", "m">>,
        timestamp |-> 16000,
        summary |-> <<"f", "i", "x", " ", "b", "u", "g">>]
  ELSE [name |-> <<"B", "o", "b", " ", "L", "e", "e">>,
        email |-> <<"b", "@", "x">>,
        timestamp |-> 7000,
        summary |-> <<"\"", "q", "\"">>]

\* hunk i of the stream is the first record of its sha and every record
\* before it is terminated
FirstOfSha(i) ==
  \A j \in 1..(i - 1) : hunks[j] # 8 /\ HunkSha[hunks[j]] # HunkSha[hunks[i]]

\* C4: a complete hunk with author, author-mail, author-time and summary
\* lines and a committed sha, the first of its sha, gives one Commit of that
\* sha with name A, email E (without the brackets, or as written when there
\* are none), timestamp T * 1000 and the summary without one layer of
\* quotes.
C4_CommitFields ==
  (Returned /\ Whole) =>
    \A i \in 1..Len(hunks) :
      (hunks[i] \in {1, 3} /\ FirstOfSha(i)) =>
        /\ Cardinality({k \in 1..Len(result.commits) :
                          result.commits[k].sha = HunkSha[hunks[i]]}) = 1
        /\ \A k \in 1..Len(result.commits) :
             result.commits[k].sha = HunkSha[hunks[i]] =>
               /\ result.commits[k].author.name = Some(ExpectedAuthor(hunks[i]).name)
               /\ result.commits[k].author.email = Some(ExpectedAuthor(hunks[i]).email)
               /\ result.commits[k].author.timestamp = Some(Num(ExpectedAuthor(hunks[i]).timestamp))
               /\ result.commits[k].summary = Some(ExpectedAuthor(hunks[i]).summary)

\* a blame returned for a stream in which hunk 1 and hunk 3 are each the
\* first of their sha
C4_Witness ==
  /\ Returned
  /\ Whole
  /\ \E i, j \in 1..Len(hunks) :
       hunks[i] = 1 /\ FirstOfSha(i) /\ hunks[j] = 3 /\ FirstOfSha(j)

\* the entry has a starting line of at least 1 and a line count of at
\* least 0
NumericEntry(e) ==
  /\ ~e.line[1].nan /\ e.line[1].n >= 0
  /\ ~e.lineCount[1].nan /\ e.lineCount[1].n >= 0

\* the indices the entry claims
RangeOf(e) == e.line[1].n .. (e.line[1].n + e.lineCount[1].n - 1)

\* the flushed entries are numeric and no two of them claim the same index
DisjointRanges ==
  /\ \A i \in 1..Len(parsedEntries) : NumericEntry(parsedEntries[i])
  /\ \A i, j \in 1..Len(parsedEntries) :
       i # j => RangeOf(parsedEntries[i]) \cap RangeOf(parsedEntries[j]) = {}

RECURSIVE SumLineCount(_)
\* the sum of lineCount over the entries
SumLineCount(es) == IF es = <<>> THEN 0 ELSE es[1].lineCount[1].n + SumLineCount(Tail(es))

\* the indices claimed by some flushed entry
Claimed == UNION {RangeOf(parsedEntries[i]) : i \in 1..Len(parsedEntries)}

\* C5, as claimed: with pairwise disjoint ranges the number of entries of
\* `lines` and its length both equal the sum of lineCount, also when the
\* ranges do not start at 0 or leave gaps.
C5_LengthIsSumOfLineCount ==
  (Returned /\ DisjointRanges) =>
    /\ Cardinality(ElementKeys(result.lines)) = SumLineCount(parsedEntries)
    /\ ArrayLength(result.lines) = SumLineCount(parsedEntries)

\* C5, amended: with pairwise disjoint ranges the number of populated
\* entries of `lines` equals the sum of lineCount; the length of `lines` is
\* one more than the highest attributed index (0 when there is none) and
\* equals the sum only when the ranges cover 0..sum-1 without a gap.
C5_PopulatedIsSumOfLineCount ==
  (Returned /\ DisjointRanges) =>
    /\ Cardinality(ElementKeys(result.lines)) = SumLineCount(parsedEntries)
    /\ ElementKeys(result.lines) = {Num(k) : k \in Claimed}
    /\ \A k \in Claimed : k < ArrayLength(result.lines)
    /\ ArrayLength(result.lines) > 0 => ArrayLength(result.lines) - 1 \in Claimed
    /\ ArrayLength(result.lines) = SumLineCount(parsedEntries)
         <=> Claimed = 0..(SumLineCount(parsedEntries) - 1)

\* a blame returned for two entries with disjoint ranges that leave a gap
C5_Witness ==
  /\ Returned
  /\ DisjointRanges
  /\ Len(parsedEntries) = 2
  /\ SumLineCount(parsedEntries) = 3
  /\ ArrayLength(result.lines) > 3

\* GitBlameParser.parse was called with the empty text
ParseCalledWithEmpty ==
  /\ gitBlameOutput = <<>>
  /\ \/ caller = "direct"
     \/ caller = "blame" /\ ~fileIsNew /\ pc # "blame"

\* C6: parse given the empty text returns undefined, not a FileBlame and
\* not an error, and never calls commitBody.
C6_EmptyIsAbsent ==
  ParseCalledWithEmpty =>
    /\ pc \in {"parse", "done"}
    /\ bodyCalls = <<>>
    /\ revListExecs = <<>>
    /\ result \in {NoResult, AbsentResult}
    /\ pc = "done" => result = AbsentResult

\* parse returned for the empty text
C6_Witness == ParseCalledWithEmpty /\ pc = "done" /\ result = AbsentResult

\* 'filename ', the terminator of a record
Terminator == TagFilename \o <<" ">>

\* the number of lines of the text that start with the terminator
TerminatorsWithin(text) ==
  Cardinality({p \in 1..Len(text) :
                 /\ p + Len(Terminator) - 1 <= Len(text)
                 /\ SubSeq(text, p, p + Len(Terminator) - 1) = Terminator
                 /\ (p = 1 \/ text[p - 1] = "\n")})

\* the entries without their file name
WithoutFileName(es) == [i \in 1..Len(es) |-> [es[i] EXCEPT !.fileName = Undefined]]

\* the entries of the whole stream whose terminator is in what arrived
CompleteEntries == SubSeq(parseEntries(StreamOf(hunks)), 1, TerminatorsWithin(stdout))

\* C7: of a stream cut after any prefix the parser returns exactly the
\* records whose `filename` terminator is in the prefix, each as in the
\* whole stream; what follows the last terminator gives no entry, no
\* commit, no line, no call of commitBody and no error.
C7_TruncatedStream ==
  (caller = "direct" /\ pc \in {"done", "rejected"}) =>
    LET complete == CompleteEntries
        built == CreateFileBlameFrom(complete, 1, <<>>, <<>>, caller)
    IN  /\ stdout # <<>> => WithoutFileName(parsedEntries) = WithoutFileName(complete)
        /\ Range(bodyCalls) \subseteq {complete[i].sha[1] : i \in 1..Len(complete)}
        /\ pc = "done" =>
             IF stdout = <<>> THEN result = AbsentResult
             ELSE result = FileBlame(FileUriOfBlame, built.commits, built.lines)

\* a parse returned for a stream cut inside a record that follows a
\* complete one
C7_Witness ==
  /\ Returned
  /\ ~Whole
  /\ current # Undefined
  /\ current[1].sha # Undefined
  /\ Len(result.commits) = 1
  /\ Len(hunks) = 2

\* the hunks of BlameHunks with an `author` line, and those with a `summary`
\* line
HunksWithAuthor == {1, 3, 4, 6, 8}

HunksWithSummary == {1, 3, 4, 6, 7}

\* C8, as claimed: every flushed entry of an uncommitted sha has the author
\* 'You' and the summary 'uncommitted', whatever author and summary lines
\* it had, or none.
C8_AlwaysPlaceholders ==
  \A i \in 1..Len(parsedEntries) :
    isUncommittedSha(parsedEntries[i].sha) =>
      /\ parsedEntries[i].author = Some(StrYou)
      /\ parsedEntries[i].summary = Some(StrUncommitted)

\* C8, amended: a flushed entry of an uncommitted sha has the author 'You'
\* when it had an `author` line, whatever its value, and the summary
\* 'uncommitted' when it had a `summary` line; without such a line the field
\* stays undefined.
C8_PlaceholdersWhenLinePresent ==
  /\ \A i \in 1..Len(parsedEntries) :
       isUncommittedSha(parsedEntries[i].sha) =>
         /\ parsedEntries[i].author \in {Undefined, Some(StrYou)}
         /\ parsedEntries[i].summary \in {Undefined, Some(StrUncommitted)}
  /\ (ParsedAll /\ Whole /\ NoUnterminated) =>
       /\ Len(parsedEntries) = Len(RecordHunks)
       /\ \A i \in 1..Len(parsedEntries) :
            isUncommittedSha(parsedEntries[i].sha) =>
              /\ parsedEntries[i].author =
                   IF RecordHunks[i] \in HunksWithAuthor THEN Some(StrYou) ELSE Undefined
              /\ parsedEntries[i].summary =
                   IF RecordHunks[i] \in HunksWithSummary THEN Some(StrUncommitted)
                   ELSE Undefined

\* the entries of an uncommitted hunk with author and summary lines and of
\* one without were flushed
C8_Witness ==
  /\ ParsedAll
  /\ Whole
  /\ \E i, j \in 1..Len(parsedEntries) :
       /\ isUncommittedSha(parsedEntries[i].sha)
       /\ parsedEntries[i].author = Some(StrYou)
       /\ parsedEntries[i].summary = Some(StrUncommitted)
       /\ isUncommittedSha(parsedEntries[j].sha)
       /\ parsedEntries[j].author = Undefined

----------------------------------------------------------------------------
(* Properties of NameStatusParser and of the status mapping. *)

\* the uris of the three paths under the repository
UriFoo == <<"f", "i", "l", "e", ":", "/", "/", "/", "r", "/", "a", "/", "f", "o", "o", ".", "t", "s">>

UriBar == <<"f", "i", "l", "e", ":", "/", "/", "/", "r", "/", "b", "/", "b", "a", "r", ".", "t", "s">>

UriBar2 == <<"f", "i", "l", "e", ":", "/", "/", "/", "r", "/", "b", "/", "b", "a", "r", "2", ".", "t", "s">>

\* the record each of the well-formed records 1 to 4 of NameStatusRecords
\* stands for: M a/foo.ts, D b/bar.ts, R100 b/bar.ts b/bar2.ts,
\* C75 a/foo.ts b/bar.ts
ExpectedChange ==
  <<[status |-> "Modified", uri |-> UriFoo, oldUri |-> Undefined, staged |-> Undefined],
    [status |-> "Deleted", uri |-> UriBar, oldUri |-> Undefined, staged |-> Undefined],
    [status |-> "Renamed", uri |-> UriBar2, oldUri |-> Some(UriBar), staged |-> Undefined],
    [status |-> "Copied", uri |-> UriBar, oldUri |-> Some(UriFoo), staged |-> Undefined]>>

\* the number of tokens of each of these records
RecordWidth == <<2, 2, 3, 3>>

\* the record is not the empty token
IsListed(r) == r # 6

\* the records of the listing that are not the empty token
Listed == SelectSeq(listing.records, IsListed)

\* the listing is made of whole well-formed records and empty tokens
WellFormed ==
  /\ op = "diff"
  /\ listing.drop = 0
  /\ \A i \in 1..Len(listing.records) : listing.records[i] \in {1, 2, 3, 4, 6}

RECURSIVE WidthOfFirst(_, _)
\* the number of tokens of the first n records
WidthOfFirst(rs, n) == IF n = 0 THEN 0 ELSE RecordWidth[rs[n]] + WidthOfFirst(rs, n - 1)

\* C9: parse walks the tokens with a cursor; a similarity status takes three
\* tokens and gives a record with the second as oldUri and the third as uri,
\* any other status takes two and gives a record with the second as uri;
\* the records come out in the order of the input.
C9_CursorWalk ==
  WellFormed =>
    /\ cpc # "threw"
    /\ cpc \in {"loop", "done"} =>
         /\ Len(changes) <= Len(Listed)
         /\ changes = [i \in 1..Len(changes) |-> ExpectedChange[Listed[i]]]
         /\ index = WidthOfFirst(Listed, Len(changes))
    /\ cpc = "done" =>
         cresult = [kind |-> "changes",
                    changes |-> [i \in 1..Len(Listed) |-> ExpectedChange[Listed[i]]],
                    error |-> NoError]

\* parse returned for the listing M a/foo.ts R100 b/bar.ts b/bar2.ts joined
\* by NUL: Modified a/foo.ts, then Renamed b/bar2.ts from b/bar.ts
C9_Witness ==
  /\ WellFormed
  /\ cpc = "done"
  /\ listing.records = <<1, 3>>
  /\ ~input.isArray
  /\ Len(cresult.changes) = 2
  /\ cresult.changes[2].status = "Renamed"
  /\ cresult.changes[2].uri = UriBar2
  /\ cresult.changes[2].oldUri = Some(UriBar)

\* the record has an oldUri if and only if it is Renamed or Copied
OldUriIffSimilarity(c) == c.oldUri # Undefined <=> c.status \in {"Renamed", "Copied"}

StatusOfApp ==
  [s \in AppFileStatus |->
     CASE s = "AppConflicted" -> "Conflicted"
       [] s = "AppCopied" -> "Copied"
       [] s = "AppDeleted" -> "Deleted"
       [] s = "AppModified" -> "Modified"
       [] s = "AppNew" -> "New"
       [] s = "AppRenamed" -> "Renamed"]

\* the first file of toMap whose status is not of the enumeration, 0 if
\* there is none
FirstUnexpected ==
  IF \E i \in 1..Len(toMap) : toMap[i].status \notin AppFileStatus
  THEN CHOOSE i \in 1..Len(toMap) :
         /\ toMap[i].status \notin AppFileStatus
         /\ \A j \in 1..(i - 1) : toMap[j].status \in AppFileStatus
  ELSE 0

\* C11: the status mapping maps each of the six statuses of the enumeration
\* to its GitFileStatus and throws an `unexpected status` error that carries
\* the raw value for any other; it never falls back to a default. An error
\* thrown inside NameStatusParser.parse (or mapFileChanges) reaches the
\* caller, and the call returns no list of records, not even the records
\* pushed before.
C11_UnexpectedStatusFails ==
  /\ \A i \in 1..Len(mapped) :
       IF toMap[i].status \in AppFileStatus
       THEN /\ ~mapped[i].threw
            /\ mapped[i].change[1].status = StatusOfApp[toMap[i].status]
            /\ mapped[i].change[1].status \in GitFileStatus
       ELSE /\ mapped[i].threw
            /\ mapped[i].change = <<>>
            /\ mapped[i].error = UnexpectedStatus(toMap[i].status)
  /\ (op = "status" /\ cpc = "done") => FirstUnexpected = 0
  /\ (op = "status" /\ cpc = "threw") =>
       /\ FirstUnexpected # 0
       /\ cresult = [kind |-> "threw", changes |-> <<>>,
                     error |-> UnexpectedStatus(toMap[FirstUnexpected].status)]
  /\ (op = "diff" /\ cpc = "loop" /\ index < Len(items) /\ ~mapStatus(items[index + 1]).ok) =>
       /\ ParseRecord(items, index).threw
       /\ ParseRecord(items, index).error = UnexpectedStatus(items[index + 1])
  /\ (op = "diff" /\ cpc = "threw" /\ cresult.error.kind = "unexpected status") =>
       /\ ~mapStatus(items[index + 1]).ok
       /\ cresult = [kind |-> "threw", changes |-> <<>>,
                     error |-> UnexpectedStatus(items[index + 1])]
  /\ (op = "diff" /\ cpc = "done") =>
       /\ cresult.kind = "changes"
       /\ \A i \in 1..Len(cresult.changes) : cresult.changes[i].status \in GitFileStatus

\* parse had pushed the record of `M a/foo.ts` when it met the status Z: the
\* call threw the error that names Z and returned nothing
C11_Witness ==
  /\ op = "diff"
  /\ cpc = "threw"
  /\ listing = [records |-> <<1, 5>>, drop |-> 0]
  /\ changes = <<ExpectedChange[1]>>
  /\ cresult.changes = <<>>
  /\ cresult.error = UnexpectedStatus(<<"Z">>)

\* the number of tokens the record of a status token takes
TokensNeeded(rawStatus) == IF isSimilarityStatus(rawStatus) THEN 3 ELSE 2

\* the uri is the one of a token of the input
FromToken(uri) == \E k \in 1..Len(items) : toUri(Some(items[k])) = [ok |-> TRUE, uri |-> uri]

\* C12: when the tokens end before the path or paths of the last status
\* token, NameStatusParser.parse throws in that iteration (the TypeError of
\* Path.join for an undefined segment); it never returns a record whose uri
\* or oldUri was made of a missing path, and the cursor never passes the end
\* of the tokens.
C12_MissingPathThrows ==
  op = "diff" =>
    /\ (cpc = "loop" /\ index < Len(items) /\ mapStatus(items[index + 1]).ok
          /\ index + TokensNeeded(items[index + 1]) > Len(items)) =>
         /\ ParseRecord(items, index).threw
         /\ ParseRecord(items, index).error = PathTypeError
    /\ cpc \in {"loop", "done", "threw"} =>
         /\ index <= Len(items)
         /\ \A i \in 1..Len(changes) :
              /\ FromToken(changes[i].uri)
              /\ changes[i].oldUri # Undefined => FromToken(changes[i].oldUri[1])
    /\ cpc = "done" =>
         /\ index = Len(items)
         /\ cresult = [kind |-> "changes", changes |-> changes, error |-> NoError]
    /\ (cpc = "threw" /\ cresult.error = PathTypeError) =>
         /\ index + TokensNeeded(items[index + 1]) > Len(items)
         /\ cresult.changes = <<>>

\* the listing `M a/foo.ts R100 b/bar.ts` lacks the new path of the rename:
\* parse threw at the second status and returned no record
C12_Witness ==
  /\ op = "diff"
  /\ cpc = "threw"
  /\ listing = [records |-> <<1, 3>>, drop |-> 1]
  /\ items = << <<"M">>, PathFoo, <<"R", "1", "0", "0">>, PathBar >>
  /\ index = 2
  /\ cresult = [kind |-> "threw", changes |-> <<>>, error |-> PathTypeError]

\* the fragments the input of parse is made of, in their order: the tokens
\* of the listing (none of them holds the delimiter)
Fragments == TokensOf(listing.records, listing.drop)

RECURSIVE Without(_, _)
\* the sequence s without the elements that are in the set drop
Without(s, drop) ==
  IF s = <<>> THEN <<>>
  ELSE IF s[1] \in drop THEN Without(Tail(s), drop)
  ELSE <<s[1]>> \o Without(Tail(s), drop)

\* split has run
Tokenized == op = "diff" /\ cpc # "parse"

\* C13, as stated: the tokens are the fragments of the input in their order
\* without the empty ones and without those made of white space only.
C13_BlankFragmentsRemoved ==
  Tokenized => items = Without(Fragments, {<<>>, <<" ">>})

\* C13: OutputParser.split returns the fragments of the string, or the items
\* of the array, in their order without the empty ones; every other
\* fragment, one made of white space only included, is returned unchanged.
C13_EmptyFragmentsRemoved ==
  Tokenized =>
    /\ items = Without(Fragments, {<<>>})
    /\ \A i \in 1..Len(Fragments) :
         Fragments[i] = <<" ">> => \E k \in 1..Len(items) : items[k] = <<" ">>

\* the string `M\0a/foo.ts\0 \0` was split: the blank after the last but one
\* delimiter is a token, the empty fragment after the last is not
C13_Witness ==
  /\ Tokenized
  /\ listing = [records |-> <<1, 7>>, drop |-> 0]
  /\ ~input.isArray
  /\ input.text = <<"M", LINE_DELIMITER>> \o PathFoo \o <<LINE_DELIMITER, " ", LINE_DELIMITER>>
  /\ items = << <<"M">>, PathFoo, <<" ">> >>

----------------------------------------------------------------------------
(* Properties of CommitDetailsParser and DugiteGit.log. *)

\* the index that stands for the blank chunk
Blank == Len(LogCommits) + 1

\* the number of chunks that are not empty: every commit gives one, and so
\* does the blank chunk unless DugiteGit.log trims it off the end
NonEmptyChunks ==
  IF logCaller = "log" /\ logCommits # <<>> /\ logCommits[Len(logCommits)] = Blank
  THEN Len(logCommits) - 1
  ELSE Len(logCommits)

\* parse has split its input
Chunked == lpc \in {"chunks", "done", "threw"}

\* the sha the record of the k-th commit of the model has
ParsedSha(k) ==
  IF k = Blank THEN <<>>
  ELSE Trim(IF shortSha THEN ShortHash(LogCommits[k].sha) ELSE LogCommits[k].sha)

\* C14, as stated: parse returns one record for each chunk that is not
\* empty, whatever the fields of the chunks hold, and never throws.
C14_OneRecordPerChunk ==
  lpc \in {"done", "threw"} =>
    /\ logResult.kind = "commits"
    /\ Len(logResult.commits) = NonEmptyChunks

\* C14: parse pushes one record for each chunk that is not empty, in the
\* order of the input; a time that is not a number gives the timestamp NaN
\* and a chunk without changed files gives an empty fileChanges, neither
\* stops the record from being made. parse throws only when the changed
\* files of a chunk do not parse (NameStatusParser.parse throws, as for
\* commit 5 of LogCommits), and then returns no record.
C14_OneRecordPerParsableChunk ==
  Chunked =>
    /\ Len(chunks) = NonEmptyChunks
    /\ Len(logChanges) = chunkIdx
    /\ \A i \in 1..Len(logChanges) :
         /\ logChanges[i].sha = Some(ParsedSha(logCommits[i]))
         /\ logCommits[i] = 2 =>
              /\ logChanges[i].author.timestamp = NaN
              /\ logChanges[i].fileChanges = <<>>
         /\ logCommits[i] = Blank =>
              /\ logChanges[i].author.timestamp = NaN
              /\ logChanges[i].summary = Undefined
    /\ lpc = "done" =>
         /\ chunkIdx = Len(chunks)
         /\ logResult = [kind |-> "commits", commits |-> logChanges, error |-> NoError]
    /\ lpc = "threw" =>
         /\ logCommits[chunkIdx + 1] = 5
         /\ logResult = [kind |-> "threw", commits |-> <<>>,
                         error |-> UnexpectedStatus(<<"Z">>)]
    /\ (\A i \in 1..Len(logCommits) : logCommits[i] # 5) => lpc # "threw"

\* parse returned two records for the commit with the date `x` and no
\* changed files followed by the commit with one changed file
C14_Witness ==
  /\ lpc = "done"
  /\ logCommits = <<2, 1>>
  /\ Len(logResult.commits) = 2
  /\ logResult.commits[1].author.timestamp = NaN
  /\ logResult.commits[1].fileChanges = <<>>
  /\ logResult.commits[2].author.timestamp = Num(16)
  /\ logResult.commits[2].fileChanges = <<ExpectedChange[1]>>

\* the records pushed for commits printed with the default placeholders
FullShaRecords ==
  {i \in 1..Len(logChanges) : Chunked /\ ~shortSha /\ logCommits[i] # Blank}

\* the fields of the record other than the sha are those of the commit
SameFields(r, c) ==
  /\ r.author.email = Some(c.email)
  /\ r.author.name = Some(c.name)
  /\ r.authorDateRelative = Some(c.relative)
  /\ r.summary = Some(c.subject)
  /\ r.body = Some(c.body)

\* the timestamp each commit of the model is parsed to
ParsedTime == <<Num(16), NaN, Num(16), Num(7), Num(7)>>

C16_ShaUnique ==
  lpc = "done" =>
    \A i, j \in 1..Len(logResult.commits) :
      i # j => logResult.commits[i].sha # logResult.commits[j].sha

----------------------------------------------------------------------------
(* Further properties of GitBlameParser. *)

\* the position of the first flushed entry of the sha
FirstEntryOf(sha) ==
  CHOOSE i \in 1..Len(parsedEntries) :
    /\ parsedEntries[i].sha = Some(sha)
    /\ \A j \in 1..(i - 1) : parsedEntries[j].sha # Some(sha)

\* the body the fetch resolves to: the mock body of a direct caller; for
\* DugiteGit.blame nothing for the uncommitted sha and otherwise the message
\* rev-list prints, `msg <sha>`
FetchedBody(sha) ==
  IF caller = "direct" THEN <<"B", ":">> \o sha
  ELSE IF Len(sha) >= 7 /\ \A i \in 1..7 : sha[i] = "0" THEN <<>>
  ELSE <<"m", "s", "g", " ">> \o sha

\* C17: the commits of the FileBlame parse returns hold exactly one Commit
\* for each sha of the flushed entries, none twice and none missing, each
\* with the body its fetch resolved to, in the order in which the shas first
\* appear in the stream.
C17_CommitsPerSha ==
  Returned =>
    /\ \A a, b \in 1..Len(result.commits) :
         result.commits[a].sha = result.commits[b].sha => a = b
    /\ {Some(result.commits[k].sha) : k \in 1..Len(result.commits)} = ShasOf(parsedEntries)
    /\ \A k \in 1..Len(result.commits) :
         result.commits[k].body = FetchedBody(result.commits[k].sha)
    /\ \A a, b \in 1..Len(result.commits) :
         a < b => FirstEntryOf(result.commits[a].sha) < FirstEntryOf(result.commits[b].sha)

\* DugiteGit.blame returned for entries of abc123, 000000d and abc123 again:
\* two commits, abc123 first, with the messages rev-list printed
C17_Witness ==
  /\ Returned
  /\ caller = "blame"
  /\ hunks = <<1, 3, 2>>
  /\ Len(parsedEntries) = 3
  /\ Len(result.commits) = 2
  /\ result.commits[1].sha = ShaAbc
  /\ result.commits[1].body = <<"m", "s", "g", " ">> \o ShaAbc
  /\ result.commits[2].sha = ShaZeroD

----------------------------------------------------------------------------
(* Properties of two parse calls on one parser. *)

\* what parse returns for the output when no other call runs and every
\* fetch resolves
Alone(rawBlame) ==
  IF rawBlame = <<>> THEN AbsentResult
  ELSE LET built == CreateFileBlameFrom(parseEntries(rawBlame), 1, <<>>, <<>>, "direct")
       IN  FileBlame(FileUriOfBlame, built.commits, built.lines)

\* C18: two parse calls on one parser, taking turns at their awaits in any
\* order, share no state: each call that returns returns what it returns
\* when it runs alone, and each calls commitBody once for every sha of its
\* own entries, whether or not the other call has fetched that sha.
C18_CallsShareNothing ==
  \A c \in Calls :
    /\ \A i, j \in 1..Len(calls[c].bodyCalls) :
         calls[c].bodyCalls[i] = calls[c].bodyCalls[j] => i = j
    /\ \A i \in 1..Len(calls[c].bodyCalls) :
         Some(calls[c].bodyCalls[i]) \in ShasOf(calls[c].parsedEntries)
    /\ calls[c].pc = "done" =>
         /\ calls[c].result = Alone(calls[c].gitBlameOutput)
         /\ {Some(calls[c].bodyCalls[i]) : i \in 1..Len(calls[c].bodyCalls)}
              = ShasOf(calls[c].parsedEntries)

\* the first call has the commit of abc123 in its map and awaits the body of
\* 000000d; the second call, on a stream of abc123, has called commitBody
\* for abc123 itself and awaits it
C18_Witness ==
  /\ calls[1].hunks = <<1, 3>>
  /\ calls[1].pc = "awaitBody"
  /\ Len(calls[1].commits) = 1
  /\ calls[1].commits[1].sha = ShaAbc
  /\ calls[1].bodyCalls = <<ShaAbc, ShaZeroD>>
  /\ calls[2].hunks = <<1>>
  /\ calls[2].pc = "awaitBody"
  /\ calls[2].bodyCalls = <<ShaAbc>>

----------------------------------------------------------------------------
(* Further properties of NameStatusParser. *)

\* the raw status a record is written with (a similarity status with a
\* score, which the record does not keep)
StatusToken(status) ==
  CASE status = "Modified" -> <<"M">>
    [] status = "New" -> <<"A">>
    [] status = "Deleted" -> <<"D">>
    [] status = "Conflicted" -> <<"U">>
    [] status = "Renamed" -> <<"R", "1", "0", "0">>
    [] status = "Copied" -> <<"C", "1", "0", "0">>

\* the path under the repository a uri stands for
PathOfUri(uri) == SubSeq(uri, Len(FileScheme) + Len(RepositoryPath) + 2, Len(uri))

\* the tokens of a list of records: for each record its status, its old
\* path if it has one, and its path
Reserialize(records) ==
  Flatten([i \in 1..Len(records) |->
             IF records[i].oldUri # Undefined
             THEN <<StatusToken(records[i].status), PathOfUri(records[i].oldUri[1]),
                    PathOfUri(records[i].uri)>>
             ELSE <<StatusToken(records[i].status), PathOfUri(records[i].uri)>>])

\* parse of an array of tokens
ParseArray(tokens) ==
  ParseFrom(split([isArray |-> TRUE, items |-> tokens, text |-> <<>>], LINE_DELIMITER), 0, <<>>)

\* parse of the tokens joined by the delimiter
ParseJoined(tokens) == NameStatusParse(JsJoin(tokens, <<LINE_DELIMITER>>))

\* the listing is made of whole records with a known status and holds no
\* empty token
WellFormedTokens ==
  /\ op = "diff"
  /\ listing.drop = 0
  /\ \A i \in 1..Len(listing.records) : listing.records[i] \in {1, 2, 3, 4}

\* C19: for a sequence of whole records of tokens that are not empty, parse
\* of the tokens joined by NUL returns the records parse of the array
\* returns; and the records written out again (status, old path, path),
\* joined by NUL and parsed again are the same records.
C19_JoinedAsArray ==
  (WellFormedTokens /\ cpc \in {"done", "threw"}) =>
    /\ cresult = ParseArray(Fragments)
    /\ cresult.kind = "changes"
    /\ ParseJoined(Reserialize(cresult.changes)) = cresult
    /\ ParseArray(Reserialize(cresult.changes)) = cresult

\* parse returned for the string `M\0a/foo.ts\0R100\0b/bar.ts\0b/bar2.ts\0D\0b/bar.ts`
C19_Witness ==
  /\ WellFormedTokens
  /\ cpc = "done"
  /\ listing.records = <<1, 3, 2>>
  /\ ~input.isArray
  /\ input.text = JsJoin(Fragments, <<LINE_DELIMITER>>)
  /\ cresult.changes = <<ExpectedChange[1], ExpectedChange[3], ExpectedChange[2]>>
  /\ Reserialize(cresult.changes)
       = << <<"M">>, PathFoo, <<"R", "1", "0", "0">>, PathBar, PathBar2, <<"D">>, PathBar >>

\* the author date of the commits of the model that have one, in unix
\* seconds as git prints it
UnixSeconds == [k \in {1, 3, 4, 5} |-> IF k \in {1, 3} THEN 16 ELSE 7]

\* C20: the timestamp of the author of every record is in milliseconds: for
\* the unix seconds t git printed, CommitDetailsParser.parse gives t * 1000,
\* as the blame parser does for `author-time t`.
C20_TimestampMillis ==
  Chunked =>
    \A i \in 1..Len(logChanges) :
      logCommits[i] \in DOMAIN UnixSeconds =>
        logChanges[i].author.timestamp = Num(UnixSeconds[logCommits[i]] * 1000)

----------------------------------------------------------------------------
(* The accumulator of parseEntries as a machine over the lines. *)

\* an entry is accumulating: `current` has its sha
Accumulating(cur) == cur # Undefined /\ cur[1].sha # Undefined

\* the fields of the entry in `current`, those of the empty entry when
\* there is none
FieldsOf(cur) == IF cur = Undefined THEN EmptyEntry ELSE cur[1]

\* the lines parseEntries has gone through
Consumed ==
  LET all == StringsSplit(gitBlameOutput, "\n")
  IN  IF pc = "parseEntries" THEN SubSeq(all, 1, Len(all) - Len(pending)) ELSE all

RECURSIVE FlushedShas(_, _)
\* the first parts of the lines that started an entry which a later
\* `filename` line flushed, in the order of the stream; `started` is the
\* first part of the line that started the entry being accumulated, if any
FlushedShas(ls, started) ==
  IF ls = <<>> THEN <<>>
  ELSE LET parts == JsSplit(Head(ls), " ")
       IN  IF Len(parts) < 2 THEN FlushedShas(Tail(ls), started)
           ELSE IF started = Undefined THEN FlushedShas(Tail(ls), Some(parts[1]))
           ELSE IF parts[1] = TagFilename
                THEN <<started[1]>> \o FlushedShas(Tail(ls), Undefined)
                ELSE FlushedShas(Tail(ls), started)

\* one line goes through the accumulator as the two-state machine does it
LineStep ==
  LET parts == JsSplit(Head(pending), " ")
  IN  /\ Len(parts) < 2 =>
           /\ parsedEntries' = parsedEntries
           /\ FieldsOf(current') = FieldsOf(current)
      /\ (Len(parts) >= 2 /\ ~Accumulating(current)) =>
           /\ parsedEntries' = parsedEntries
           /\ Accumulating(current')
           /\ current'[1].sha = Some(parts[1])
      /\ (Len(parts) >= 2 /\ Accumulating(current) /\ parts[1] = TagFilename) =>
           /\ Len(parsedEntries') = Len(parsedEntries) + 1
           /\ SubSeq(parsedEntries', 1, Len(parsedEntries)) = parsedEntries
           /\ parsedEntries'[Len(parsedEntries')].sha = current[1].sha
           /\ ~Accumulating(current')
      /\ (Len(parts) >= 2 /\ Accumulating(current) /\ parts[1] # TagFilename) =>
           /\ parsedEntries' = parsedEntries
           /\ Accumulating(current')
           /\ current'[1].sha = current[1].sha

\* C21: the accumulator is a machine of two states over the lines. While no
\* entry accumulates, the first line of two parts or more starts one and
\* never flushes it; while one accumulates, a `filename` line, and no other,
\* flushes it and leaves no entry accumulating; a line of fewer than two
\* parts changes neither the state nor the entry. So the flushed entries
\* are, in the order of the stream, the entries started that a `filename`
\* line met while they accumulated.
C21_TwoStateAccumulator ==
  /\ [][(pc = "parseEntries" /\ pending # <<>> /\ pending' # pending) => LineStep]_vars
  /\ [](pc \in {"parseEntries", "createFileBlame", "awaitBody", "done", "rejected"} =>
          [i \in 1..Len(parsedEntries) |-> parsedEntries[i].sha[1]]
            = FlushedShas(Consumed, Undefined))

\* the accumulator went through a hunk, the hunk without its `filename` line
\* and a hunk that closes it: two entries were flushed, and the second has
\* the sha of the header it started with
C21_Witness ==
  /\ pc = "createFileBlame"
  /\ Whole
  /\ hunks = <<1, 8, 4>>
  /\ Len(parsedEntries) = 2
  /\ parsedEntries[1].sha = Some(ShaAbc)
  /\ parsedEntries[2].sha = Some(ShaZeroD)

----------------------------------------------------------------------------
(* Entries whose ranges overlap. *)

\* the positions of the flushed entries that write the key k
Claimants(k) == {i \in 1..Len(parsedEntries) : k \in EntryKeys(parsedEntries[i])}

\* the last of them in the stream
LastClaimant(k) == CHOOSE i \in Claimants(k) : \A j \in Claimants(k) : j <= i

\* two flushed entries write a common key
SomeOverlap ==
  \E i, j \in 1..Len(parsedEntries) :
    i < j /\ EntryKeys(parsedEntries[i]) \cap EntryKeys(parsedEntries[j]) # {}

\* one iteration of the loop of createFileBlame writes the lines of its entry
WritesEntry == pc \in {"createFileBlame", "awaitBody"} /\ entryIdx' = entryIdx + 1

\* C22: every key of the returned line table is attributed to the last
\* flushed entry that claims it and the keys are those some entry claims;
\* an iteration overwrites the keys of its entry and leaves every other key
\* as it was, and nothing but a rejected body fetch ends the loop early.
C22_LastWriteWins ==
  /\ [](Returned =>
          /\ DOMAIN result.lines = UNION {EntryKeys(parsedEntries[i]) : i \in 1..Len(parsedEntries)}
          /\ \A k \in DOMAIN result.lines :
               result.lines[k] = [sha |-> parsedEntries[LastClaimant(k)].sha[1], line |-> k])
  /\ [][WritesEntry =>
          /\ \A k \in EntryKeys(ThisEntry) : lines'[k] = [sha |-> ThisEntry.sha[1], line |-> k]
          /\ \A k \in DOMAIN lines \ EntryKeys(ThisEntry) :
               k \in DOMAIN lines' /\ lines'[k] = lines[k]]_vars
  /\ [][pc = "createFileBlame" => pc' \in {"createFileBlame", "awaitBody", "done"}]_vars

\* a blame returned for three entries whose ranges overlap pairwise: index 1
\* went from abc123 to the uncommitted sha, index 2 from that to 000000d
C22_Witness ==
  /\ Returned /\ Whole /\ hunks = <<2, 4, 3>> /\ SomeOverlap
  /\ result.lines[Num(0)].sha = ShaAbc
  /\ result.lines[Num(1)].sha = ShaUncommitted
  /\ result.lines[Num(2)].sha = ShaZeroD
  /\ result.lines[Num(3)].sha = ShaZeroD

----------------------------------------------------------------------------
(* The order of the body fetches of one parse. *)

RECURSIVE FirstShas(_, _)
\* the shas of the entries in order of first appearance, without those seen
FirstShas(es, seen) ==
  IF es = <<>> THEN <<>>
  ELSE IF es[1].sha[1] \in seen THEN FirstShas(Tail(es), seen)
       ELSE <<es[1].sha[1]>> \o FirstShas(Tail(es), seen \cup {es[1].sha[1]})

\* createFileBlame is running or has ended
InCreateFileBlame == pc \in {"createFileBlame", "awaitBody", "done", "rejected"}

\* the number of entries whose iteration has begun
Begun == IF pc \in {"awaitBody", "rejected"} THEN entryIdx ELSE entryIdx - 1

\* the fetches issued and not resolved: every resolved fetch puts one commit
\* in the map
Outstanding == Len(bodyCalls) - Len(commits)

\* C23: at most one body fetch is outstanding, and one is only while
\* createFileBlame awaits it (or after it was rejected); the fetches issued
\* are those of the shas of the entries begun, in order of first appearance;
\* a line is attributed to a sha only when the commit of that sha is in the
\* map; a FileBlame is returned only when no fetch is outstanding.
C23_SequentialFetches ==
  /\ Outstanding \in {0, 1}
  /\ Outstanding = 1 <=> pc \in {"awaitBody", "rejected"}
  /\ InCreateFileBlame => bodyCalls = FirstShas(SubSeq(parsedEntries, 1, Begun), {})
  /\ ~InCreateFileBlame => bodyCalls = <<>>
  /\ \A k \in DOMAIN lines : HasCommit(commits, lines[k].sha)
  /\ Returned =>
       /\ Outstanding = 0
       /\ bodyCalls = FirstShas(parsedEntries, {})
       /\ [i \in 1..Len(result.commits) |-> result.commits[i].sha] = bodyCalls

\* the second fetch of a parse is outstanding: the first has resolved and
\* the lines of the two entries of its sha are written, none of the third
C23_Witness ==
  /\ pc = "awaitBody" /\ Whole /\ hunks = <<1, 2, 3>>
  /\ bodyCalls = <<ShaAbc, ShaZeroD>>
  /\ Len(commits) = 1
  /\ DOMAIN lines = {Num(9), Num(0), Num(1)}

----------------------------------------------------------------------------
(* A body fetch that fails. *)

\* the await of createFileBlame ends without a commit for the awaited sha
FetchFailed == pc = "awaitBody" /\ pc' # "awaitBody" /\ commits' = commits

\* C24: when the awaited body fetch fails the call is rejected on the spot,
\* with no FileBlame and no further fetch; the rejected call takes no step
\* again (no retry), and the fetches issued are those of the shas up to the
\* entry whose fetch failed.
C24_RejectionPropagates ==
  /\ [][FetchFailed =>
          /\ pc' = "rejected"
          /\ result' = RejectedResult
          /\ bodyCalls' = bodyCalls /\ revListExecs' = revListExecs
          /\ lines' = lines]_vars
  /\ [][pc = "rejected" => UNCHANGED blameVars]_vars
  /\ [](pc = "rejected" =>
          /\ result.kind = "rejected"
          /\ bodyCalls = FirstShas(SubSeq(parsedEntries, 1, entryIdx), {})
          /\ bodyCalls[Len(bodyCalls)] = ThisEntry.sha[1])

\* the fetch for 000000d failed: the call is rejected, and no fetch was
\* issued for the uncommitted sha of the hunk that follows
C24_Witness ==
  /\ pc = "rejected" /\ Whole /\ hunks = <<1, 3, 4>>
  /\ entryIdx = 2 /\ Len(parsedEntries) = 3
  /\ bodyCalls = <<ShaAbc, ShaZeroD>>
  /\ parsedEntries[3].sha = Some(ShaUncommitted)
  /\ result = RejectedResult

----------------------------------------------------------------------------
(* DugiteGit.blame for a new file and for any other file. *)

\* what GitBlameParser.parse returns for an output when every body fetch
\* of the commitBodyReader resolves
ParseOf(rawBlame) ==
  IF rawBlame = <<>> THEN AbsentResult
  ELSE LET built == CreateFileBlameFrom(parseEntries(rawBlame), 1, <<>>, <<>>, "blame")
       IN  FileBlame(FileUriOfBlame, built.commits, built.lines)

\* C25: for a file that is New, DugiteGit.blame returns undefined and neither
\* runs blame, nor parses, nor fetches a body; for any other file parse is
\* called with the trimmed output of the command and what blame returns is
\* what parse returns for it, undefined when it is empty.
C25_BlameOfNewFile ==
  [](/\ (caller = "blame" /\ fileIsNew) =>
          /\ pc \in {"blame", "done"}
          /\ gitBlameOutput = <<>> /\ pending = <<>> /\ parsedEntries = <<>>
          /\ bodyCalls = <<>> /\ revListExecs = <<>>
          /\ pc = "done" => result = AbsentResult
     /\ (caller = "blame" /\ ~fileIsNew /\ pc \in {"parse", "done"}) =>
          gitBlameOutput = Trim(stdout)
     /\ (caller = "blame" /\ ~fileIsNew /\ pc = "done") =>
          /\ result = ParseOf(gitBlameOutput)
          /\ gitBlameOutput = <<>> => result = AbsentResult)

\* blame has returned undefined for a new file although the command would
\* have had output
C25_Witness ==
  /\ pc = "done" /\ caller = "blame" /\ fileIsNew
  /\ Len(hunks) = 2 /\ Trim(stdout) # <<>>
  /\ result = AbsentResult

----------------------------------------------------------------------------
(* Several entries of one sha. *)

\* the first flushed entry of a sha, in stream order
FirstEntryWith(sha) ==
  parsedEntries[CHOOSE j \in 1..Len(parsedEntries) :
                  /\ parsedEntries[j].sha[1] = sha
                  /\ \A k \in 1..(j - 1) : parsedEntries[k].sha[1] # sha]

\* the iteration of an entry whose sha is in the map already
KnownShaIteration ==
  /\ pc = "createFileBlame" /\ entryIdx <= Len(parsedEntries)
  /\ HasCommit(commits, ThisEntry.sha[1])

\* C26: the commit of a sha has the author name, email, timestamp, tz
\* offset and summary of the first flushed entry of that sha; the iteration
\* of a later entry of the sha leaves the commits as they are, fetches no
\* body and writes the lines of the entry; a commit once in the map is not
\* changed.
C26_CommitOfFirstEntry ==
  /\ [](InCreateFileBlame =>
          \A i \in 1..Len(commits) :
            LET first == FirstEntryWith(commits[i].sha)
            IN  /\ commits[i].author = [name |-> first.author, email |-> first.authorMail,
                                        timestamp |-> first.authorTime,
                                        tzOffset |-> first.authorTz]
                /\ commits[i].summary = first.summary)
  /\ [][KnownShaIteration =>
          /\ commits' = commits /\ bodyCalls' = bodyCalls
          /\ lines' = WriteLines(lines, ThisEntry)
          /\ entryIdx' = entryIdx + 1]_vars
  /\ [][\A i \in 1..Len(commits) : Len(commits') >= i /\ commits'[i] = commits[i]]_vars

\* a blame returned for three entries of abc123: the one commit is Jane's,
\* of the first entry, though the second entry has no field and the third
\* has Eve as author and another summary; the lines of all three are there
C26_Witness ==
  /\ Returned /\ Whole /\ hunks = <<1, 2, 6>>
  /\ Len(result.commits) = 1
  /\ result.commits[1].author.name = Some(<<"J", "a", "n", "e">>)
  /\ parsedEntries[2].author = Undefined
  /\ parsedEntries[3].author = Some(<<"E", "v", "e">>)
  /\ parsedEntries[3].summary # parsedEntries[1].summary
  /\ DOMAIN result.lines = {Num(9), Num(0), Num(1)}

----------------------------------------------------------------------------
(* A header line met while an entry is accumulating. *)

\* the first tokens pumpEntry has a branch for
FieldTags ==
  {TagAuthor, TagAuthorMail, TagAuthorTime, TagAuthorTz, TagSummary, TagPrevious,
   TagFilename}

\* parseEntries goes through one line while an entry is accumulating
PumpsWhileAccumulating ==
  /\ pc = "parseEntries" /\ pending # <<>> /\ pending' # pending
  /\ Accumulating(current)

\* the entry the line was pumped into, after the step: the last flushed
\* one when the line was its terminator, else the current one
PumpedEntry(cur, flushed) == IF cur = Undefined THEN flushed[Len(flushed)] ELSE cur[1]

\* an unterminated hunk comes first and a hunk with a terminator after it
UnterminatedFirst ==
  /\ Whole /\ Len(hunks) >= 2 /\ hunks[1] = 8
  /\ \E i \in 2..Len(hunks) : hunks[i] \in 1..7

\* C27: a line pumped into an accumulating entry leaves its sha, line and
\* lineCount as they are; a line without a field tag as first token changes
\* neither the entry nor the flushed entries, so it starts no entry; and
\* when the first hunk of a stream lacks its `filename` line, the entry
\* flushed at the `filename` line of a later hunk has the sha and the range
\* of the first header.
C27_HeaderWhileAccumulating ==
  /\ [][PumpsWhileAccumulating =>
          LET firstPart == JsSplit(Head(pending), " ")[1]
              after == PumpedEntry(current', parsedEntries')
          IN  /\ after.sha = current[1].sha
              /\ after.line = current[1].line
              /\ after.lineCount = current[1].lineCount
              /\ firstPart \notin FieldTags =>
                   current' = current /\ parsedEntries' = parsedEntries]_vars
  /\ []((UnterminatedFirst /\ (Returned \/ pc \in {"createFileBlame", "awaitBody", "rejected"})) =>
          /\ parsedEntries # <<>>
          /\ parsedEntries[1].sha = Some(ShaZeroD)
          /\ parsedEntries[1].line = Some(Num(5))
          /\ parsedEntries[1].lineCount = Some(Num(1)))

\* the hunk of 000000d without terminator is followed by the hunk of abc123:
\* the one entry flushed is of 000000d at index 5, with the author of the
\* second hunk, and abc123 has no entry
C27_Witness ==
  /\ pc = "createFileBlame" /\ Whole /\ hunks = <<8, 1>>
  /\ Len(parsedEntries) = 1
  /\ parsedEntries[1].sha = Some(ShaZeroD)
  /\ parsedEntries[1].line = Some(Num(5))
  /\ parsedEntries[1].author = Some(<<"J", "a", "n", "e">>)

----------------------------------------------------------------------------
(* The line table and the commits of a FileBlame. *)

\* the flushed entries of a sha
EntriesOf(sha) == {i \in 1..Len(parsedEntries) : parsedEntries[i].sha[1] = sha}

\* the entry has a positive line count
PositiveCount(e) == ~e.lineCount[1].nan /\ e.lineCount[1].n > 0

\* the sha is that of some populated position of the returned line table
Owns(sha) == \E k \in ElementKeys(result.lines) : result.lines[k].sha = sha

\* the key k, written for entry i, is written again for a later entry of
\* another sha
Overwritten(i, k) ==
  \E j \in (i + 1)..Len(parsedEntries) :
    k \in EntryKeys(parsedEntries[j]) /\ parsedEntries[j].sha # parsedEntries[i].sha

\* every populated position holds its own index as line and the sha of a
\* commit of the FileBlame
PositionsWellFormed ==
  \A k \in ElementKeys(result.lines) :
    /\ result.lines[k].line = k
    /\ HasCommit(result.commits, result.lines[k].sha)

----------------------------------------------------------------------------
(* An input without a complete entry. *)

\* GitBlameParser.parse was or will be called: always by a direct caller,
\* by DugiteGit.blame unless the file is new
ParseCalled == caller = "direct" \/ ~fileIsNew

\* the input of parse has no entry that a `filename` line completes
NoCompleteEntry == FlushedShas(StringsSplit(gitBlameOutput, "\n"), Undefined) = <<>>

\* C29: parse returns undefined exactly for the empty input; for an input
\* that is not empty and has no complete entry it fetches no body, is not
\* rejected, and returns a FileBlame with no commits and no lines.
C29_AbsentOnlyForEmpty ==
  [](/\ (ParseCalled /\ pc = "done") => (result = AbsentResult <=> gitBlameOutput = <<>>)
     /\ (ParseCalled /\ pc # "blame" /\ gitBlameOutput # <<>>) =>
          \/ /\ bodyCalls = <<>> /\ revListExecs = <<>>
             /\ pc \notin {"awaitBody", "rejected"}
             /\ pc = "done" => result = FileBlame(FileUriOfBlame, <<>>, <<>>)
          \/ ~NoCompleteEntry)

\* parse has returned a FileBlame without commits and lines for an input
\* that is one hunk without its `filename` line, and no body was fetched
C29_Witness ==
  /\ pc = "done" /\ caller = "direct" /\ Whole /\ hunks = <<8>>
  /\ gitBlameOutput # <<>> /\ NoCompleteEntry
  /\ result = FileBlame(FileUriOfBlame, <<>>, <<>>)
  /\ bodyCalls = <<>>

----------------------------------------------------------------------------
(* The messages of a stream, however it is cut into chunks. *)

\* the position in the stream of the last byte of frame i
FrameEnd(i) == Len(FramesOf(SubSeq(framed, 1, i)))

\* the number of frames all of whose bytes were delivered
CompleteFrames == Cardinality({i \in 1..Len(framed) : FrameEnd(i) <= delivered})

RECURSIVE PayloadsOf(_)
\* the payloads of the frames that have one, in stream order
PayloadsOf(ms) ==
  IF ms = <<>> THEN <<>>
  ELSE (IF AdapterMessages[ms[1]] = <<>> THEN <<>> ELSE <<AdapterMessages[ms[1]]>>)
         \o PayloadsOf(Tail(ms))

\* the bytes delivered of the first frame that is not complete
BytesOfOpenFrame == SubSeq(fromAdapter, FrameEnd(CompleteFrames) + 1, delivered)

\* the length of the header of the frame of a message
HeaderLength(message) == Len(send(message)) - Len(message)

\* C30: in every state, whatever the chunks were, the messages fired are
\* the payloads of the frames delivered in full, in stream order and once
\* each (a frame of length 0 fires nothing); the buffer holds the bytes
\* delivered of the frame that is not complete, without its header once the
\* header is there, and contentLength is the length of that frame then and
\* -1 otherwise.
C30_ChunkingInsensitive ==
  /\ fired = PayloadsOf(SubSeq(framed, 1, CompleteFrames))
  /\ IF CompleteFrames < Len(framed)
     THEN LET message == AdapterMessages[framed[CompleteFrames + 1]]
          IN  IF Len(BytesOfOpenFrame) >= HeaderLength(message)
              THEN /\ contentLength = Num(Len(message))
                   /\ buffer = BufferSlice(BytesOfOpenFrame, HeaderLength(message))
                   /\ Len(buffer) < Len(message)
              ELSE /\ contentLength = Num(-1)
                   /\ buffer = BytesOfOpenFrame
     ELSE contentLength = Num(-1) /\ buffer = <<>>

\* a chunk has ended in the payload of the second frame: the message of the
\* first frame was fired, two of the four bytes of the second are buffered
C30_Witness ==
  /\ framed = <<2, 3>>
  /\ delivered = FrameEnd(2) - 2
  /\ fired = <<AdapterMessages[2]>>
  /\ contentLength = Num(4)
  /\ buffer = <<"\r", "\n">>

====
